---- MODULE Spec2Model ----
(***************************************************************************)
(* Registry canister (gpt_index) of the confidential-computing fleet:      *)
(* nodes, the principal index, the measurement allow-list, the manager     *)
(* set, and the handlers that change them.                                 *)
(*                                                                         *)
(* Time is counted in seconds: a value t of the model stands for           *)
(* t * 10^9 ns of ic_cdk::api::time().  Every time comparison of the code  *)
(* is an integer comparison, so boundaries are kept at unit granularity.   *)
(*                                                                         *)
(* Option<T> is modelled as a sequence: None is << >>, Some(x) is <<x>>.   *)
(* Strings that the code trims, lower-cases, hex-encodes or hex-decodes    *)
(* are sequences of one-character strings.                                 *)
(***************************************************************************)
EXTENDS Integers, Sequences, FiniteSets, TLC

(* ------------------------------ bounds --------------------------------- *)

\* number of nodes create_node may create
MaxNodes == 2
\* the proxy_handler calls that can be in flight at once
MaxRequests == 2
\* how many launches run ensure_assets at a time
MaxLaunches == 2
\* seconds per step of the clock the heartbeat task and the liveness timer share
PulseTick == 3
\* the last instant of that clock: two periods of the liveness timer and a step
MaxPulseTime == 1203
\* the WebSocket connections a guest can have in flight at once
MaxConnections == 2
\* largest reading of the clock that runs from the guest's DrainAndShutdown
MaxDrainClock == 125
\* largest clock value
MaxTime == 601
\* bytes of a report's measurement (48 in the report layout)
MeasurementLen == 1
\* bytes of a report's chip id (64 in the report layout)
ChipIdLen == 1

(* ------------------------------ options -------------------------------- *)

None == << >>
Some(x) == <<x>>
is_some(o) == o # None
unwrap(o) == o[1]

(* ------------------------------ principals ----------------------------- *)

\* Principal::anonymous() is the single byte 0x04
Anonymous == <<4>>
NodeP1 == <<1>>
NodeP2 == <<1, 2>>
Admin == <<9>>
OwnerP == <<7>>

NodeCallers == {Anonymous, NodeP1, NodeP2}
\* callers of the manager-gated handlers, and the principals that become managers
GovCallers == {Admin, NodeP1}
ManagerCandidates == {Admin}
RegisteredUsers == {OwnerP}

(* ------------------------------ strings -------------------------------- *)

HexLower == <<"0", "1", "2", "3", "4", "5", "6", "7", "8", "9", "a", "b", "c", "d", "e", "f">>
HexUpper == <<"0", "1", "2", "3", "4", "5", "6", "7", "8", "9", "A", "B", "C", "D", "E", "F">>

\* char::to_lowercase on the alphabet used here (hex digits, "Z"/"z", " ")
LowerChar(c) ==
    IF \E i \in 1..16 : HexUpper[i] = c
    THEN HexLower[CHOOSE i \in 1..16 : HexUpper[i] = c]
    ELSE IF c = "Z" THEN "z" ELSE c

UpperChar(c) ==
    IF \E i \in 1..16 : HexLower[i] = c
    THEN HexUpper[CHOOSE i \in 1..16 : HexLower[i] = c]
    ELSE IF c = "z" THEN "Z" ELSE c

to_lowercase(s) == [i \in 1..Len(s) |-> LowerChar(s[i])]
to_uppercase(s) == [i \in 1..Len(s) |-> UpperChar(s[i])]

RECURSIVE trim_start(_)
trim_start(s) == IF s # << >> /\ Head(s) = " " THEN trim_start(Tail(s)) ELSE s

RECURSIVE trim_end(_)
trim_end(s) ==
    IF s # << >> /\ s[Len(s)] = " " THEN trim_end(SubSeq(s, 1, Len(s) - 1)) ELSE s

trim(s) == trim_end(trim_start(s))

IsHexChar(c) == \E i \in 1..16 : HexLower[i] = c \/ HexUpper[i] = c
HexVal(c) == (CHOOSE i \in 1..16 : HexLower[i] = c \/ HexUpper[i] = c) - 1

\* hex::encode: two lower-case digits per byte, high nibble first
hex_encode(bytes) ==
    [i \in 1..(2 * Len(bytes)) |->
        LET b == bytes[(i + 1) \div 2]
        IN  IF i % 2 = 1 THEN HexLower[(b \div 16) + 1] ELSE HexLower[(b % 16) + 1]]

\* hex::decode: Err on odd length or a non-hex character, digits of either case
hex_decode(s) ==
    IF Len(s) % 2 = 1 \/ (\E i \in 1..Len(s) : ~IsHexChar(s[i]))
    THEN [ok |-> FALSE, bytes |-> << >>]
    ELSE [ok |-> TRUE,
          bytes |-> [i \in 1..(Len(s) \div 2) |->
                        16 * HexVal(s[2 * i - 1]) + HexVal(s[2 * i])]]

(* ------------------------------ results -------------------------------- *)

Ok(payload) == [ok |-> TRUE, kind |-> "Ok", msg |-> payload]
Err(kind, msg) == [ok |-> FALSE, kind |-> kind, msg |-> msg]

Unauthorized == Err("Unauthorized", << >>)
NodeNotFound == Err("NodeNotFound", << >>)

(* ------------------------------ maps ----------------------------------- *)

\* BTreeMap::insert and BTreeMap::remove
MapInsert(m, k, v) == [x \in (DOMAIN m) \cup {k} |-> IF x = k THEN v ELSE m[x]]
MapRemove(m, k) == [x \in (DOMAIN m) \ {k} |-> m[x]]
MapGet(m, k) == IF k \in DOMAIN m THEN Some(m[k]) ELSE None
EmptyMap == [x \in {} |-> 0]

(* ------------------------------ time ----------------------------------- *)

\* gpt_node, in seconds: the flag monitor's sleep, and the longest wait for
\* job streams and its poll interval
FLAG_POLL_INTERVAL == 1
MAX_WAIT == 120
POLL_INTERVAL == 2

LIVENESS_CHECK_INTERVAL == 600
LIVENESS_TIMEOUT == LIVENESS_CHECK_INTERVAL

\* steps by which the clock advances between calls
TimeSteps == {LIVENESS_TIMEOUT, LIVENESS_TIMEOUT + 1}

abs_diff(a, b) == IF a >= b THEN a - b ELSE b - a
saturating_sub(a, b) == IF a >= b THEN a - b ELSE 0

(* ------------------------------ measurements --------------------------- *)

Bytes(len, v) == [i \in 1..len |-> v]

Meas1 == Bytes(MeasurementLen, 171)
Meas2 == Bytes(MeasurementLen, 205)

ChipA == Bytes(ChipIdLen, 171)
\* ChipA with bit 0 of its first byte flipped
ChipA1 == [ChipA EXCEPT ![1] = 170]
ChipB == Bytes(ChipIdLen, 18)

CHIP_ID_HEX_LENGTH == 2 * ChipIdLen

MeasurementStatuses == {"Active", "Deprecated", "Revoked"}

\* find that takes the first entry, whatever its hex
find_first_entry(measurements, hex) ==
    IF measurements # << >> THEN Some(measurements[1]) ELSE None

\* Iterator::find on requirements.measurements: the first entry with that hex
find_measurement(measurements, hex) ==
    IF \E i \in 1..Len(measurements) : measurements[i].measurement_hex = hex
    THEN Some(measurements[CHOOSE i \in 1..Len(measurements) :
                  /\ measurements[i].measurement_hex = hex
                  /\ \A j \in 1..(i - 1) : measurements[j].measurement_hex # hex])
    ELSE None

(* ------------------------------ policy --------------------------------- *)

Tcb(bl, tee, snp, ucode, fmc) ==
    [bootloader |-> bl, tee |-> tee, snp |-> snp, microcode |-> ucode, fmc |-> fmc]

\* get_default_attestation_requirements, without the measurement list
DefaultPolicy ==
    [min_report_version |-> 2,
     milan_policy |-> [min_tcb |-> Tcb(4, 0, 28, 222, 0), min_guest_svn |-> 0],
     genoa_policy |-> [min_tcb |-> Tcb(10, 0, 24, 84, 0), min_guest_svn |-> 0],
     turin_policy |-> [min_tcb |-> Tcb(255, 255, 255, 255, 255), min_guest_svn |-> 255],
     require_smt_disabled |-> TRUE,
     require_tsme_disabled |-> TRUE,
     require_ecc_enabled |-> TRUE,
     require_rapl_disabled |-> FALSE,
     require_ciphertext_hiding_enabled |-> FALSE,
     expected_measurement_len |-> 48,
     max_attestation_age_ns |-> 300]

\* a policy a manager may install with update_attestation_policies
RelaxedPolicy ==
    [min_report_version |-> 2,
     milan_policy |-> [min_tcb |-> Tcb(4, 0, 28, 222, 0), min_guest_svn |-> 0],
     genoa_policy |-> [min_tcb |-> Tcb(10, 0, 24, 84, 0), min_guest_svn |-> 0],
     turin_policy |-> [min_tcb |-> Tcb(1, 0, 1, 1, 4), min_guest_svn |-> 0],
     require_smt_disabled |-> FALSE,
     require_tsme_disabled |-> TRUE,
     require_ecc_enabled |-> TRUE,
     require_rapl_disabled |-> TRUE,
     require_ciphertext_hiding_enabled |-> FALSE,
     expected_measurement_len |-> 48,
     max_attestation_age_ns |-> 2]

PolicyRequests == {DefaultPolicy, RelaxedPolicy}

WithMeasurements(policy, ms) ==
    [min_report_version |-> policy.min_report_version,
     milan_policy |-> policy.milan_policy,
     genoa_policy |-> policy.genoa_policy,
     turin_policy |-> policy.turin_policy,
     require_smt_disabled |-> policy.require_smt_disabled,
     require_tsme_disabled |-> policy.require_tsme_disabled,
     require_ecc_enabled |-> policy.require_ecc_enabled,
     require_rapl_disabled |-> policy.require_rapl_disabled,
     require_ciphertext_hiding_enabled |-> policy.require_ciphertext_hiding_enabled,
     expected_measurement_len |-> policy.expected_measurement_len,
     max_attestation_age_ns |-> policy.max_attestation_age_ns,
     measurements |-> ms]

(* ------------------------------ state ---------------------------------- *)

VARIABLES
    nodes,          \* NODES: node_id -> Node
    index,          \* NODE_PRINCIPAL_INDEX: principal -> node_id
    requirements,   \* CONFIG.attestation_requirements (Some after init)
    next_node_id,   \* CONFIG.next_node_id
    managers,       \* MANAGERS
    now,            \* ic_cdk::api::time(), in seconds
    units,          \* the host's service directory: node_id -> the port of its unit file
    cache,          \* run_watcher's cache: node_id -> NodeMeta
    table,          \* the router's RoutingTable: key -> local port
    lock,           \* the RwLock around the RoutingTable
    watcher,        \* run_watcher's position in sync_state and its new_table
    proxy,          \* the proxy_handler calls in flight: their position and locals
    guest,          \* the gpt_node process in the VM: SharedState and its tasks
    seed_file,      \* the bytes of the host's seed file, None without a file
    launch,         \* the last launch_node_vm: its error, or what QEMU was started with
    identity,       \* the last extract_host_data of a guest: its error or its result
    kds,            \* fetch_vek_certificate_retry of a guest: its position and locals
    assets,         \* the asset cache of the host, its lock file and the launches using it
    pulse           \* a guest's heartbeat task and the registry's liveness timer, on one clock

\* the router's tasks around the RoutingTable
router == <<lock, watcher, proxy>>

\* the state of the host's router process and of the host's service directory
host == <<units, cache, table, router>>

\* the stable memory of the registry canister, and its clock
registry == <<nodes, index, requirements, next_node_id, managers, now>>

\* what a call of the registry leaves alone, and what the host's tools and
\* router leave alone
\* the launch of a VM: the seed on the host, the launch and what the guest
\* reads back
launcher == <<seed_file, launch, identity>>

outside_registry == <<host, guest, launcher, kds, assets, pulse>>
outside_host == <<registry, guest, launcher, kds, assets, pulse>>
outside_guest == <<registry, host, launcher, kds, assets, pulse>>
outside_launcher == <<registry, host, guest, kds, assets, pulse>>
outside_kds == <<registry, host, guest, launcher, assets, pulse>>
outside_assets == <<registry, host, guest, launcher, kds, pulse>>
outside_pulse == <<host, guest, launcher, kds, assets>>

vars == <<nodes, index, requirements, next_node_id, managers, now, units, cache, table,
          lock, watcher, proxy, guest, seed_file, launch, identity, kds, assets, pulse>>

\* nothing extracted, the lock file free, no launch under way
InitAssets ==
    [dir |-> None, lock |-> None,
     launches |-> [l \in 1..MaxLaunches |-> [pc |-> "idle", step |-> 0, result |-> None]]]

\* no guest yet
InitPulse ==
    [pc |-> "off", next_cycle |-> 0, attempt_start |-> 0,
     next_tick |-> LIVENESS_CHECK_INTERVAL]

Init ==
    /\ nodes = EmptyMap
    /\ index = EmptyMap
    /\ requirements = WithMeasurements(DefaultPolicy, << >>)
    /\ next_node_id = 1
    /\ managers = {}
    /\ now = 0
    /\ units = Some(EmptyMap)
    /\ cache = EmptyMap
    /\ table = EmptyMap
    /\ lock = [writer |-> FALSE, readers |-> {}]
    /\ watcher = [pc |-> "sleep", new_table |-> EmptyMap]
    /\ proxy = [r \in 1..MaxRequests |-> [pc |-> "idle", host |-> << >>, target_port |-> None]]
    /\ guest = [is_draining |-> FALSE, shutdown |-> FALSE, job_streams |-> {},
                connections |-> [c \in 1..MaxConnections |-> [pc |-> "none", stream_key |-> None]],
                heartbeat_task |-> "sleeping", flag_monitor |-> FLAG_POLL_INTERVAL,
                main |-> "serving", wait |-> [elapsed |-> 0, sleep |-> 0],
                exit_code |-> None, since_drain |-> None]
    /\ seed_file = None
    /\ launch = None
    /\ identity = None
    /\ kds = [pc |-> "idle", report |-> None, candidate |-> 1, elapsed |-> 0, result |-> None]
    /\ assets = InitAssets
    /\ pulse = InitPulse

(* ------------------------------ nodes ---------------------------------- *)

Lifecycles == {"Inactive", "Active", "Draining"}

\* the Node that create_node stores
NewNode(node_id, owner, hostname, model_id, api_key, chip_hex) ==
    [node_id |-> node_id,
     owner |-> owner,
     node_principal |-> None,
     hostname |-> hostname,
     model_id |-> model_id,
     encrypted_api_key |-> api_key,
     lifecycle_status |-> "Inactive",
     authenticated_measurement |-> None,
     attestation_verified_at |-> None,
     last_heartbeat_timestamp |-> None,
     expected_chip_id |-> chip_hex,
     reported_measurement |-> None,
     reported_chip_id |-> None,
     reported_tcb |-> None,
     reported_platform_info |-> None,
     detected_generation |-> None,
     public_key |-> None]

\* a scrubbing that forgets the public key and the chip id of the session
scrubbed_keeping_key(node) ==
    [node EXCEPT
        !.lifecycle_status = "Inactive",
        !.node_principal = None,
        !.authenticated_measurement = None,
        !.attestation_verified_at = None,
        !.last_heartbeat_timestamp = None,
        !.reported_measurement = None,
        !.reported_tcb = None,
        !.reported_platform_info = None,
        !.detected_generation = None]

\* the session scrubbing shared by deactivate_node_internal and heartbeat's Abort
Scrubbed(node) ==
    [node EXCEPT
        !.lifecycle_status = "Inactive",
        !.node_principal = None,
        !.public_key = None,
        !.authenticated_measurement = None,
        !.attestation_verified_at = None,
        !.last_heartbeat_timestamp = None,
        !.reported_measurement = None,
        !.reported_chip_id = None,
        !.reported_tcb = None,
        !.reported_platform_info = None,
        !.detected_generation = None]

\* deactivate_node_internal that leaves the heap index as it is
deactivate_keeping_index(ns, idx, node_id) ==
    IF node_id \notin DOMAIN ns
    THEN [nodes |-> ns, index |-> idx, result |-> NodeNotFound]
    ELSE [nodes |-> [ns EXCEPT ![node_id] = Scrubbed(ns[node_id])],
          index |-> idx,
          result |-> Ok(<< >>)]

\* deactivate_node_internal on the pair (NODES, NODE_PRINCIPAL_INDEX)
deactivate_node_internal(ns, idx, node_id) ==
    IF node_id \notin DOMAIN ns
    THEN [nodes |-> ns, index |-> idx, result |-> NodeNotFound]
    ELSE LET node == ns[node_id]
         IN  IF node.lifecycle_status # "Inactive" \/ is_some(node.node_principal)
             THEN [nodes |-> [ns EXCEPT ![node_id] = Scrubbed(node)],
                   index |-> IF is_some(node.node_principal)
                             THEN MapRemove(idx, unwrap(node.node_principal))
                             ELSE idx,
                   result |-> Ok(<< >>)]
             ELSE [nodes |-> ns, index |-> idx, result |-> Ok(<< >>)]

(* ------------------------------ create_node ---------------------------- *)

\* MODELS: the models that exist and are not paused
Models == {"model-a"}

HostnameInputs == {<<" ">>, <<" ", "a", ".", "x", " ">>}
ChipHexInputs ==
    {<<" ">> \o to_uppercase(hex_encode(ChipA)) \o <<" ">>,
     hex_encode(ChipA) \o <<"0", "0">>,
     [i \in 1..CHIP_ID_HEX_LENGTH |-> "z"]}

CreateRequests ==
    [hostname : HostnameInputs, model_id : {"model-a", "model-x"},
     encrypted_api_key : {"age-ciphertext"}, expected_chip_id : ChipHexInputs]

create_node(caller, req) ==
    LET chip == to_lowercase(trim(req.expected_chip_id))
        unchanged(r) == [nodes |-> nodes, next_node_id |-> next_node_id, result |-> r]
    IN  IF caller \notin RegisteredUsers THEN unchanged(Unauthorized)
        ELSE IF requirements.measurements = << >>
        THEN unchanged(Err("Other", <<"Attestation measurements have not been configured.">>))
        ELSE IF trim(req.hostname) = << >>
        THEN unchanged(Err("InvalidInput", <<"Hostname cannot be empty.">>))
        ELSE IF req.model_id \notin Models THEN unchanged(Err("ModelNotFound", << >>))
        ELSE IF Len(chip) # CHIP_ID_HEX_LENGTH
        THEN unchanged(Err("InvalidInput", <<"Chip ID must be CHIP_ID_HEX_LENGTH chars.">>))
        ELSE IF ~hex_decode(chip).ok
        THEN unchanged(Err("InvalidInput", <<"Invalid Chip ID hex.">>))
        ELSE [nodes |-> MapInsert(nodes, next_node_id,
                            NewNode(next_node_id, caller, trim(req.hostname), req.model_id,
                                    req.encrypted_api_key, chip)),
              next_node_id |-> next_node_id + 1,
              result |-> Ok(<<next_node_id>>)]

CreateNode ==
    /\ next_node_id <= MaxNodes
    /\ \E caller \in RegisteredUsers \cup {NodeP1}, req \in CreateRequests :
          LET o == create_node(caller, req)
          IN  /\ nodes' = o.nodes
              /\ next_node_id' = o.next_node_id
    /\ UNCHANGED <<index, requirements, managers, now>>
    /\ UNCHANGED outside_registry

(* ------------------------------ evidence ------------------------------- *)

\* u64::to_le_bytes
RECURSIVE le_bytes(_, _)
le_bytes(t, n) == IF n = 0 THEN << >> ELSE <<t % 256>> \o le_bytes(t \div 256, n - 1)
to_le_bytes(t) == le_bytes(t, 8)

\* SHA-256 and SHA-384 as collision-free hashes: the digest names its preimage
Sha256(bytes) == [alg |-> "sha256", preimage |-> bytes]
Sha384(body) == [alg |-> "sha384", preimage |-> body]

\* the 64-byte report_data: 32 bytes of digest, then 32 more bytes
ReportData(digest, tail) == [head |-> digest, tail |-> tail]
Zero32 == Bytes(32, 0)

\* register_node's expected_report_data
expected_report_data(principal, timestamp) ==
    ReportData(Sha256(principal \o to_le_bytes(timestamp)), Zero32)

\* an X.509 certificate: its key, and the key that signed it
Cert(subject, key, signed_by) ==
    [subject |-> subject, key |-> key, signed_by |-> signed_by, sec1_ok |-> TRUE]

Generations == {"Milan", "Genoa", "Turin"}
\* sev::certs::snp::builtin::{milan, genoa, turin}::{ark, ask}
BuiltinArk(gen) == Cert(<<"ARK", gen>>, <<"ark-key", gen>>, <<"ark-key", gen>>)
BuiltinAsk(gen) == Cert(<<"ASK", gen>>, <<"ask-key", gen>>, <<"ark-key", gen>>)
BuiltinRoots == {BuiltinArk(gen) : gen \in Generations}
Vek(gen) == Cert(<<"VCEK", gen>>, <<"vek-key", gen>>, <<"ask-key", gen>>)

\* Certificate::from_der and AttestationReport::from_bytes
Der(cert) == [parses |-> TRUE, value |-> cert]
BadDer == [parses |-> FALSE, value |-> << >>]

\* (signer, cert).verify()
verify_cert(signer, cert) == cert.signed_by = signer.key

\* the first 672 bytes of a report: everything but the signature
SignedBody(report) ==
    [version |-> report.version,
     guest_svn |-> report.guest_svn,
     measurement |-> report.measurement,
     report_data |-> report.report_data,
     chip_id |-> report.chip_id,
     reported_tcb |-> report.reported_tcb,
     plat_info |-> report.plat_info]

PlatInfo(smt, tsme, ecc, rapl_off) ==
    [smt_enabled |-> smt, tsme_enabled |-> tsme, ecc_enabled |-> ecc, rapl_disabled |-> rapl_off]

UnsignedReport(version, svn, measurement, report_data, chip_id, tcb, plat) ==
    [version |-> version, guest_svn |-> svn, measurement |-> measurement,
     report_data |-> report_data, chip_id |-> chip_id, reported_tcb |-> tcb,
     plat_info |-> plat, signature |-> << >>]

\* the secure processor signs the body with the endorsement key
Sign(report, key) ==
    [report EXCEPT !.signature = [by |-> key, over |-> Sha384(SignedBody(report))]]

\* verify_report_signature_manually
verify_report_signature_manually(report, vek) ==
    IF ~vek.sec1_ok THEN Err("sig", <<"Failed to parse VEK pubkey SEC1 bytes">>)
    ELSE IF /\ report.signature.by = vek.key
            /\ report.signature.over = Sha384(SignedBody(report))
    THEN Ok(<< >>)
    ELSE Err("sig", <<"Report signature verification failed">>)

detect_generation_from_report(report) ==
    IF is_some(report.reported_tcb.fmc) THEN "Turin" ELSE "Milan"

GenPolicy(reqs, generation) ==
    CASE generation = "Milan" -> reqs.milan_policy
      [] generation = "Genoa" -> reqs.genoa_policy
      [] generation = "Turin" -> reqs.turin_policy
      [] OTHER -> reqs.milan_policy

When(cond, msg) == IF cond THEN <<msg>> ELSE << >>

\* perform_attestation_checks: the errors it collects, in order
perform_attestation_checks(report, reqs, generation) ==
    LET matched == find_measurement(reqs.measurements, hex_encode(report.measurement))
        policy == GenPolicy(reqs, generation)
        tcb == report.reported_tcb
        min_tcb == policy.min_tcb
        plat == report.plat_info
    IN  (IF is_some(matched)
         THEN When(unwrap(matched).status # "Active", "Measurement is not Active")
         ELSE <<"Reported measurement not found in allowed registry">>)
        \o When(report.version < reqs.min_report_version, "Report version < min")
        \o When(report.guest_svn < policy.min_guest_svn, "Guest SVN < min")
        \o When(tcb.microcode < min_tcb.microcode, "TCB Microcode < min")
        \o When(tcb.snp < min_tcb.snp, "TCB SNP < min")
        \o When(tcb.tee < min_tcb.tee, "TCB TEE < min")
        \o When(tcb.bootloader < min_tcb.bootloader, "TCB Bootloader < min")
        \o When(generation = "Turin" /\ is_some(tcb.fmc) /\ unwrap(tcb.fmc) < min_tcb.fmc,
                "TCB FMC < min")
        \o When(reqs.require_smt_disabled /\ plat.smt_enabled, "SMT enabled, required disabled")
        \o When(reqs.require_tsme_disabled /\ plat.tsme_enabled, "TSME enabled, required disabled")
        \o When(reqs.require_ecc_enabled /\ ~plat.ecc_enabled, "ECC disabled, required enabled")

\* the chain check of verify_attestation_evidence
verify_chain(ark, ask, vek) ==
    IF ~verify_cert(ark, ark) THEN Err("chain", <<"ARK self-signed check failed">>)
    ELSE IF ~verify_cert(ark, ask) THEN Err("chain", <<"ARK -> ASK signature check failed">>)
    ELSE IF ~verify_cert(ask, vek) THEN Err("chain", <<"ASK -> VEK signature check failed">>)
    ELSE Ok(<< >>)

\* the nonce check looking at the second half of report_data only
report_data_tail_matches(report, expected) == report.report_data.tail = expected.tail

\* the nonce check of verify_attestation_evidence
report_data_matches(report, expected) == report.report_data = expected

\* verify_attestation_evidence: Ok(generation) or Err(message)
verify_attestation_evidence(report, ark, ask, vek, reqs, expected) ==
    LET chain == verify_chain(ark, ask, vek)
        sig == verify_report_signature_manually(report, vek)
        generation == detect_generation_from_report(report)
        errors == perform_attestation_checks(report, reqs, generation)
    IN  IF ~chain.ok THEN chain
        ELSE IF ~sig.ok THEN sig
        ELSE IF ~report_data_matches(report, expected)
        THEN Err("nonce", <<"Report Data mismatch. Replay attack or invalid nonce.">>)
        ELSE IF errors # << >> THEN Err("checks", errors)
        ELSE Ok(<<generation>>)

(* ------------------------------ register_node ------------------------- *)

\* step 3 rejecting at the boundary as well
replay_window_strict(current_time_ns, timestamp, max_attestation_age_ns) ==
    ~(abs_diff(current_time_ns, timestamp) >= max_attestation_age_ns)

\* step 3: the replay window
replay_window_ok(current_time_ns, timestamp, max_attestation_age_ns) ==
    ~(abs_diff(current_time_ns, timestamp) > max_attestation_age_ns)

\* step 4 without the comparison of principals
can_register_any_caller(ns, node_id, caller) == node_id \in DOMAIN ns

\* step 4: the target is Inactive, or bound to the caller
can_register(ns, node_id, caller) ==
    /\ node_id \in DOMAIN ns
    /\ \/ ns[node_id].lifecycle_status = "Inactive"
       \/ ns[node_id].node_principal = Some(caller)

\* step 7: the reported measurement is in the allow-list with status Active
registry_status(measurements, reported_hex) ==
    LET m == find_measurement(measurements, reported_hex)
    IN  IF is_some(m)
        THEN IF unwrap(m).status # "Active"
             THEN Err("InvalidInput", <<"Measurement is not Active. Registration rejected.">>)
             ELSE Ok(<< >>)
        ELSE Err("InvalidInput", <<"Measurement not found in allowed registry.">>)

\* step 8 comparing the lengths only
chip_id_same_length(reported_chip_id_bytes, expected_chip_id_bytes) ==
    Len(reported_chip_id_bytes) = Len(expected_chip_id_bytes)

\* step 8: the report's chip id is the node's expected chip id
chip_id_matches(reported_chip_id_bytes, expected_chip_id_bytes) ==
    reported_chip_id_bytes = expected_chip_id_bytes

\* step 9 without the heartbeat stamp: the session is stored with the stamp
\* the record had before
committed_unstamped(node, caller, req, report, generation) ==
    [node EXCEPT
        !.node_principal = Some(caller),
        !.lifecycle_status = "Active",
        !.authenticated_measurement = Some(hex_encode(report.measurement)),
        !.attestation_verified_at = Some(now),
        !.public_key = Some(req.public_key),
        !.reported_measurement = Some(report.measurement),
        !.reported_chip_id = Some(report.chip_id),
        !.reported_tcb = Some(Tcb(report.reported_tcb.bootloader, report.reported_tcb.tee,
                                  report.reported_tcb.snp, report.reported_tcb.microcode,
                                  IF is_some(report.reported_tcb.fmc)
                                  THEN unwrap(report.reported_tcb.fmc) ELSE 0)),
        !.reported_platform_info = Some(report.plat_info),
        !.detected_generation = Some(generation)]

\* step 9: the Node that register_node stores
Committed(node, caller, req, report, generation) ==
    [node EXCEPT
        !.node_principal = Some(caller),
        !.lifecycle_status = "Active",
        !.authenticated_measurement = Some(hex_encode(report.measurement)),
        !.attestation_verified_at = Some(now),
        !.last_heartbeat_timestamp = Some(now),
        !.public_key = Some(req.public_key),
        !.reported_measurement = Some(report.measurement),
        !.reported_chip_id = Some(report.chip_id),
        !.reported_tcb = Some(Tcb(report.reported_tcb.bootloader, report.reported_tcb.tee,
                                  report.reported_tcb.snp, report.reported_tcb.microcode,
                                  IF is_some(report.reported_tcb.fmc)
                                  THEN unwrap(report.reported_tcb.fmc) ELSE 0)),
        !.reported_platform_info = Some(report.plat_info),
        !.detected_generation = Some(generation)]

\* step 1 left out: the caller's other session stays
evict_nothing(ns, idx, caller, node_id) ==
    [nodes |-> ns, index |-> idx, result |-> Ok(<< >>)]

\* step 1 without the filter: a caller indexed to any node has that session
\* deactivated
evict_any_session(ns, idx, caller, node_id) ==
    LET existing_node_id == MapGet(idx, caller)
    IN  IF is_some(existing_node_id)
        THEN deactivate_node_internal(ns, idx, unwrap(existing_node_id))
        ELSE [nodes |-> ns, index |-> idx, result |-> Ok(<< >>)]

\* step 1 that drops the index entry and leaves the old node's record alone
evict_from_index_only(ns, idx, caller, node_id) ==
    LET existing_node_id == MapGet(idx, caller)
    IN  IF is_some(existing_node_id) /\ unwrap(existing_node_id) # node_id
        THEN [nodes |-> ns, index |-> MapRemove(idx, caller), result |-> Ok(<< >>)]
        ELSE [nodes |-> ns, index |-> idx, result |-> Ok(<< >>)]

\* step 1: a caller indexed to another node has that session deactivated
evict_old_session(ns, idx, caller, node_id) ==
    LET existing_node_id == MapGet(idx, caller)
    IN  IF is_some(existing_node_id) /\ unwrap(existing_node_id) # node_id
        THEN deactivate_node_internal(ns, idx, unwrap(existing_node_id))
        ELSE [nodes |-> ns, index |-> idx, result |-> Ok(<< >>)]

\* register_node: the registry after the call, and the result
register_node(caller, req) ==
    LET evicted == evict_old_session(nodes, index, caller, req.node_id)
        ns == evicted.nodes
        idx == evicted.index
        reject(r) == [nodes |-> ns, index |-> idx, result |-> r]
        report == req.attestation_report.value
        evidence == verify_attestation_evidence(
                        report, req.ark_der.value, req.ask_der.value, req.vek_der.value,
                        requirements, expected_report_data(caller, req.timestamp))
        expected_chip == hex_decode(ns[req.node_id].expected_chip_id)
    IN  IF caller = Anonymous
        THEN [nodes |-> nodes, index |-> index, result |-> Unauthorized]
        ELSE IF trim(req.public_key) = << >>
        THEN reject(Err("InvalidInput", <<"Node public key is required for registration.">>))
        ELSE IF requirements.measurements = << >>
        THEN reject(Err("Other", <<"No active attestation measurements configured. Registration is disabled.">>))
        ELSE IF ~replay_window_ok(now, req.timestamp, requirements.max_attestation_age_ns)
        THEN reject(Err("InvalidInput", <<"Attestation timestamp too old or in future.">>))
        ELSE IF ~can_register(ns, req.node_id, caller)
        THEN reject(Err("Other", <<"Node is currently active with a different controller.">>))
        ELSE IF ~req.ark_der.parses
        THEN reject(Err("InvalidInput", <<"Failed to parse ARK DER">>))
        ELSE IF ~req.ask_der.parses
        THEN reject(Err("InvalidInput", <<"Failed to parse ASK DER">>))
        ELSE IF ~req.vek_der.parses
        THEN reject(Err("InvalidInput", <<"Failed to parse VEK DER">>))
        ELSE IF ~req.attestation_report.parses
        THEN reject(Err("InvalidInput", <<"Failed to parse attestation report bytes">>))
        ELSE IF ~evidence.ok
        THEN reject(Err("InvalidInput", evidence.msg))
        ELSE IF ~registry_status(requirements.measurements, hex_encode(report.measurement)).ok
        THEN reject(registry_status(requirements.measurements, hex_encode(report.measurement)))
        ELSE IF ~expected_chip.ok
        THEN reject(Err("Other", <<"Internal error: Failed to decode expected_chip_id.">>))
        ELSE IF ~chip_id_matches(report.chip_id, expected_chip.bytes)
        THEN reject(Err("InvalidInput", <<"Chip ID mismatch between configuration and attestation report.">>))
        ELSE [nodes |-> [ns EXCEPT ![req.node_id] =
                            Committed(ns[req.node_id], caller, req, report, unwrap(evidence.msg))],
              index |-> MapInsert(idx, caller, req.node_id),
              result |-> Ok(<< >>)]

(* the requests register_node is called with *)

MilanTcb == Tcb(4, 0, 28, 222, None)
TurinTcb == Tcb(1, 0, 1, 1, Some(3))
GoodPlat == PlatInfo(FALSE, FALSE, TRUE, TRUE)

\* the report the secure processor of a `gen` machine produces for a guest
HonestBody(principal, timestamp, measurement, chip_id, gen) ==
    UnsignedReport(2, 0, measurement, expected_report_data(principal, timestamp), chip_id,
                   IF gen = "Turin" THEN TurinTcb ELSE MilanTcb, GoodPlat)

RegReq(node_id, timestamp, public_key, ark, ask, vek, report) ==
    [node_id |-> node_id, timestamp |-> timestamp, public_key |-> public_key,
     ark_der |-> ark, ask_der |-> ask, vek_der |-> vek, attestation_report |-> report]

\* evidence of a genuine `gen` machine, sent as it was produced
HonestReq(node_id, principal, timestamp, measurement, chip_id, gen) ==
    RegReq(node_id, timestamp, <<"k">>, Der(BuiltinArk(gen)), Der(BuiltinAsk(gen)), Der(Vek(gen)),
           Der(Sign(HonestBody(principal, timestamp, measurement, chip_id, gen), Vek(gen).key)))

\* a chain under a root that is self-signed but not built in
RogueArk == Cert(<<"ARK", "rogue">>, <<"ark-key", "rogue">>, <<"ark-key", "rogue">>)
RogueAsk == Cert(<<"ASK", "rogue">>, <<"ask-key", "rogue">>, <<"ark-key", "rogue">>)
RogueVek == Cert(<<"VCEK", "rogue">>, <<"vek-key", "rogue">>, <<"ask-key", "rogue">>)

Timestamps(t, age) ==
    {x \in {t - age - 1, t - age, t, t + age, t + age + 1} : x >= 0}

OtherPrincipal(p) == IF p = NodeP1 THEN NodeP2 ELSE NodeP1

RegisterRequests(p, n) ==
    LET good == HonestReq(n, p, now, Meas1, ChipA, "Milan")
        body == HonestBody(p, now, Meas1, ChipA, "Milan")
        key == Vek("Milan").key
        with(b) == [good EXCEPT !.attestation_report = Der(Sign(b, key))]
    IN  {HonestReq(n, p, t, Meas1, ChipA, "Milan") :
            t \in Timestamps(now, requirements.max_attestation_age_ns)}
        \cup {HonestReq(n, p, now, Meas2, ChipA, "Milan")}
        \cup {HonestReq(n, p, now, Meas1, c, "Milan") : c \in {ChipA1, ChipB}}
        \cup {HonestReq(n, p, now, Meas1, ChipA, "Turin")}
        \cup {[good EXCEPT !.public_key = k] : k \in {<< >>, <<" ">>}}
        \cup {[good EXCEPT !.ark_der = BadDer], [good EXCEPT !.ask_der = BadDer],
              [good EXCEPT !.vek_der = BadDer], [good EXCEPT !.attestation_report = BadDer]}
        \cup {\* a root that is not self-signed
              [good EXCEPT !.ark_der = Der([BuiltinArk("Milan") EXCEPT
                                               !.signed_by = <<"ark-key", "Genoa">>])],
              \* a complete chain under a rogue root
              RegReq(n, now, <<"k">>, Der(RogueArk), Der(RogueAsk), Der(RogueVek),
                     Der(Sign(body, RogueVek.key))),
              \* an intermediate the root did not sign
              [good EXCEPT !.ask_der = Der(RogueAsk), !.vek_der = Der(RogueVek),
                           !.attestation_report = Der(Sign(body, RogueVek.key))],
              \* an endorsement key the intermediate did not sign
              [good EXCEPT !.vek_der = Der(RogueVek),
                           !.attestation_report = Der(Sign(body, RogueVek.key))],
              \* a report another key signed
              [good EXCEPT !.attestation_report = Der(Sign(body, RogueVek.key))],
              \* a report changed after it was signed
              [good EXCEPT !.attestation_report =
                  Der([Sign(HonestBody(p, now, Meas2, ChipA, "Milan"), key)
                          EXCEPT !.measurement = Meas1])]}
        \cup {\* evidence produced for another principal, for another timestamp,
              \* and with a non-zero second half of report_data
              with(HonestBody(OtherPrincipal(p), now, Meas1, ChipA, "Milan")),
              with(HonestBody(p, now + 1, Meas1, ChipA, "Milan")),
              with([body EXCEPT !.report_data.tail = Bytes(32, 1)])}
        \cup {with([body EXCEPT !.version = 1]),
              with([body EXCEPT !.reported_tcb.microcode = 221]),
              with([body EXCEPT !.plat_info.smt_enabled = TRUE])}

\* the node ids a call names: every node that exists, and one that does not
TargetIds == (DOMAIN nodes) \cup {next_node_id}

\* the calls of the model: every request of a node principal for a node that exists,
\* one request of the anonymous caller and one for a node that does not exist
RegisterCalls(p, n) ==
    IF p = Anonymous \/ n \notin DOMAIN nodes
    THEN {HonestReq(n, p, now, Meas1, ChipA, "Milan")}
    ELSE RegisterRequests(p, n)

RegisterNode ==
    /\ \E p \in NodeCallers, n \in TargetIds :
          \E req \in RegisterCalls(p, n) :
             LET o == register_node(p, req)
             IN  /\ nodes' = o.nodes
                 /\ index' = o.index
    /\ UNCHANGED <<requirements, next_node_id, managers, now>>
    /\ UNCHANGED outside_registry

(* ------------------------------ unregister_node ----------------------- *)

\* unregister_node that takes the first node when the caller has none
unregister_node_or_first(caller) ==
    LET node_id_opt == MapGet(index, caller)
    IN  IF caller = Anonymous
        THEN [nodes |-> nodes, index |-> index, result |-> Unauthorized]
        ELSE IF is_some(node_id_opt)
        THEN deactivate_node_internal(nodes, index, unwrap(node_id_opt))
        ELSE IF 1 \in DOMAIN nodes
        THEN deactivate_node_internal(nodes, index, 1)
        ELSE [nodes |-> nodes, index |-> index, result |-> NodeNotFound]

unregister_node(caller) ==
    LET node_id_opt == MapGet(index, caller)
    IN  IF caller = Anonymous
        THEN [nodes |-> nodes, index |-> index, result |-> Unauthorized]
        ELSE IF is_some(node_id_opt)
        THEN deactivate_node_internal(nodes, index, unwrap(node_id_opt))
        ELSE [nodes |-> nodes, index |-> index, result |-> NodeNotFound]

UnregisterNode ==
    /\ \E p \in NodeCallers :
          LET o == unregister_node(p)
          IN  /\ nodes' = o.nodes
              /\ index' = o.index
    /\ UNCHANGED <<requirements, next_node_id, managers, now>>
    /\ UNCHANGED outside_registry

(* ------------------------------ get_node_config ------------------------ *)

\* get_node_config that does not compare the caller with the bound principal
get_node_config_any_caller(caller, node_id) ==
    IF caller = Anonymous THEN Unauthorized
    ELSE IF node_id \notin DOMAIN nodes THEN NodeNotFound
    ELSE IF nodes[node_id].lifecycle_status = "Inactive" THEN Unauthorized
    ELSE Ok(<<[hostname |-> nodes[node_id].hostname,
               model_id |-> nodes[node_id].model_id,
               encrypted_api_key |-> nodes[node_id].encrypted_api_key]>>)

\* get_node_config, a query: the result only
get_node_config(caller, node_id) ==
    IF caller = Anonymous THEN Unauthorized
    ELSE IF node_id \notin DOMAIN nodes THEN NodeNotFound
    ELSE IF \/ nodes[node_id].lifecycle_status = "Inactive"
            \/ nodes[node_id].node_principal # Some(caller)
    THEN Unauthorized
    ELSE Ok(<<[hostname |-> nodes[node_id].hostname,
               model_id |-> nodes[node_id].model_id,
               encrypted_api_key |-> nodes[node_id].encrypted_api_key]>>)

GetNodeConfig ==
    /\ \E p \in NodeCallers, n \in TargetIds : get_node_config(p, n).ok \in BOOLEAN
    /\ UNCHANGED vars

(* ------------------------------ heartbeat ------------------------------ *)

\* step 1 of heartbeat: the new lifecycle and the command
heartbeat_decision(node, measurements) ==
    IF is_some(node.reported_measurement)
    THEN LET config_m == find_measurement(measurements,
                                          hex_encode(unwrap(node.reported_measurement)))
         IN  IF is_some(config_m)
             THEN CASE unwrap(config_m).status = "Active" ->
                          [new_status |-> "Active", command |-> "Continue"]
                    [] unwrap(config_m).status = "Deprecated" ->
                          [new_status |-> "Draining", command |-> "DrainAndShutdown"]
                    [] unwrap(config_m).status = "Revoked" ->
                          [new_status |-> "Inactive", command |-> "Abort"]
             ELSE [new_status |-> "Inactive", command |-> "Abort"]
    ELSE [new_status |-> "Inactive", command |-> "Abort"]

\* the Abort cleanup without the removal from the heap index
heartbeat_abort_keeping_index(ns, idx, node_id, caller) ==
    [nodes |-> [ns EXCEPT ![node_id] = Scrubbed(ns[node_id])],
     index |-> idx]

\* step 2 of heartbeat, Abort: the cleanup written inline
heartbeat_abort(ns, idx, node_id, caller) ==
    [nodes |-> [ns EXCEPT ![node_id] = Scrubbed(ns[node_id])],
     index |-> MapRemove(idx, caller)]

\* the update that stamps the heartbeat and leaves the lifecycle as it was
heartbeat_keep_lifecycle(ns, node_id, new_status, current_time) ==
    [ns EXCEPT ![node_id].last_heartbeat_timestamp = Some(current_time)]

\* the update that sets the lifecycle and leaves the heartbeat stamp as it was
heartbeat_keep_unstamped(ns, node_id, new_status, current_time) ==
    [ns EXCEPT ![node_id].lifecycle_status = new_status]

\* step 2 of heartbeat, Continue and DrainAndShutdown
heartbeat_keep(ns, node_id, new_status, current_time) ==
    [ns EXCEPT ![node_id].lifecycle_status = new_status,
               ![node_id].last_heartbeat_timestamp = Some(current_time)]

heartbeat(caller) ==
    LET unchanged(r) == [nodes |-> nodes, index |-> index, result |-> r]
        node_id == index[caller]
        node == nodes[node_id]
        d == heartbeat_decision(node, requirements.measurements)
    IN  IF caller = Anonymous THEN unchanged(Unauthorized)
        ELSE IF caller \notin DOMAIN index THEN unchanged(Unauthorized)
        ELSE IF node_id \notin DOMAIN nodes THEN unchanged(NodeNotFound)
        ELSE IF node.node_principal # Some(caller) THEN unchanged(Unauthorized)
        ELSE IF d.new_status = "Inactive"
        THEN [nodes |-> heartbeat_abort(nodes, index, node_id, caller).nodes,
              index |-> heartbeat_abort(nodes, index, node_id, caller).index,
              result |-> Ok(<<d.command>>)]
        ELSE [nodes |-> heartbeat_keep(nodes, node_id, d.new_status, now),
              index |-> index,
              result |-> Ok(<<d.command>>)]

Heartbeat ==
    /\ \E p \in NodeCallers :
          LET o == heartbeat(p)
          IN  /\ nodes' = o.nodes
              /\ index' = o.index
    /\ UNCHANGED <<requirements, next_node_id, managers, now>>
    /\ UNCHANGED outside_registry

(* ------------------------------ liveness timer ------------------------- *)

\* the test that never finds a node timed out
timed_out_never(node, current_time) == FALSE

\* the test with the boundary counted as timed out
timed_out_at_boundary(node, current_time) ==
    /\ node.lifecycle_status # "Inactive"
    /\ \/ node.last_heartbeat_timestamp = None
       \/ /\ is_some(node.last_heartbeat_timestamp)
          /\ saturating_sub(current_time, unwrap(node.last_heartbeat_timestamp))
                >= LIVENESS_TIMEOUT

\* the test of check_node_liveness_tick on one node
timed_out(node, current_time) ==
    /\ node.lifecycle_status # "Inactive"
    /\ \/ node.last_heartbeat_timestamp = None
       \/ /\ is_some(node.last_heartbeat_timestamp)
          /\ saturating_sub(current_time, unwrap(node.last_heartbeat_timestamp))
                > LIVENESS_TIMEOUT

\* nodes_to_deactivate, in the order of the NODES map
RECURSIVE nodes_to_deactivate(_, _, _)
nodes_to_deactivate(ns, current_time, from) ==
    IF from \notin DOMAIN ns THEN << >>
    ELSE (IF timed_out(ns[from], current_time) THEN <<from>> ELSE << >>)
         \o nodes_to_deactivate(ns, current_time, from + 1)

RECURSIVE deactivate_each(_, _, _)
deactivate_each(ns, idx, ids) ==
    IF ids = << >> THEN [nodes |-> ns, index |-> idx]
    ELSE LET d == deactivate_node_internal(ns, idx, Head(ids))
         IN  deactivate_each(d.nodes, d.index, Tail(ids))

check_node_liveness_tick ==
    deactivate_each(nodes, index, nodes_to_deactivate(nodes, now, 1))

LivenessTick ==
    /\ nodes' = check_node_liveness_tick.nodes
    /\ index' = check_node_liveness_tick.index
    /\ UNCHANGED <<requirements, next_node_id, managers, now>>
    /\ UNCHANGED outside_registry

\* the clock of the subnet moves on between calls
AdvanceTime ==
    /\ \E d \in TimeSteps :
          /\ now + d <= MaxTime
          /\ now' = now + d
    /\ UNCHANGED <<nodes, index, requirements, next_node_id, managers>>
    /\ UNCHANGED outside_registry

(* ------------------------------ upgrade -------------------------------- *)

\* a rebuild that indexes the Active nodes alone
RECURSIVE rebuild_index_active_only(_, _, _)
rebuild_index_active_only(ns, idx, from) ==
    IF from \notin DOMAIN ns THEN idx
    ELSE rebuild_index_active_only(ns,
             IF is_some(ns[from].node_principal) /\ ns[from].lifecycle_status = "Active"
             THEN MapInsert(idx, unwrap(ns[from].node_principal), from)
             ELSE idx,
             from + 1)

\* post_upgrade_handler: the heap index is rebuilt from NODES, in map order
RECURSIVE rebuild_index(_, _, _)
rebuild_index(ns, idx, from) ==
    IF from \notin DOMAIN ns THEN idx
    ELSE rebuild_index(ns,
             IF is_some(ns[from].node_principal) /\ ns[from].lifecycle_status # "Inactive"
             THEN MapInsert(idx, unwrap(ns[from].node_principal), from)
             ELSE idx,
             from + 1)

post_upgrade_handler == rebuild_index(nodes, EmptyMap, 1)

PostUpgrade ==
    /\ index' = post_upgrade_handler
    /\ UNCHANGED <<nodes, requirements, next_node_id, managers, now>>
    /\ UNCHANGED outside_registry

(* ------------------------------ governance ----------------------------- *)

\* verify_manager that lets every caller through
verify_manager_anyone(caller) == Ok(<< >>)

verify_manager(caller) == IF caller \notin managers THEN Unauthorized ELSE Ok(<< >>)

claim_manager_role(caller) ==
    IF managers # {}
    THEN [managers |-> managers, result |-> Err("RoleAlreadyClaimed", << >>)]
    ELSE [managers |-> managers \cup {caller}, result |-> Ok(<< >>)]

add_manager(caller, principal_to_add) ==
    IF ~verify_manager(caller).ok
    THEN [managers |-> managers, result |-> verify_manager(caller)]
    ELSE [managers |-> managers \cup {principal_to_add}, result |-> Ok(<< >>)]

\* remove_manager without the guard of the last manager
remove_manager_unguarded(caller, principal_to_remove) ==
    IF ~verify_manager(caller).ok
    THEN [managers |-> managers, result |-> verify_manager(caller)]
    ELSE IF principal_to_remove \in managers
    THEN [managers |-> managers \ {principal_to_remove}, result |-> Ok(<< >>)]
    ELSE [managers |-> managers, result |-> Err("UserNotFound", << >>)]

remove_manager(caller, principal_to_remove) ==
    IF ~verify_manager(caller).ok
    THEN [managers |-> managers, result |-> verify_manager(caller)]
    ELSE IF /\ Cardinality(managers) = 1
            /\ principal_to_remove \in managers
            /\ caller = principal_to_remove
    THEN [managers |-> managers,
          result |-> Err("InvalidInput", <<"Cannot remove the last manager.">>)]
    ELSE IF principal_to_remove \in managers
    THEN [managers |-> managers \ {principal_to_remove}, result |-> Ok(<< >>)]
    ELSE [managers |-> managers, result |-> Err("UserNotFound", << >>)]

ClaimManagerRole ==
    /\ \E caller \in ManagerCandidates :
          /\ managers' = claim_manager_role(caller).managers
    /\ UNCHANGED <<nodes, index, requirements, next_node_id, now>>
    /\ UNCHANGED outside_registry

AddManager ==
    /\ \E caller \in GovCallers, p \in ManagerCandidates :
          /\ managers' = add_manager(caller, p).managers
    /\ UNCHANGED <<nodes, index, requirements, next_node_id, now>>
    /\ UNCHANGED outside_registry

RemoveManager ==
    /\ \E caller \in GovCallers, p \in ManagerCandidates :
          /\ managers' = remove_manager(caller, p).managers
    /\ UNCHANGED <<nodes, index, requirements, next_node_id, now>>
    /\ UNCHANGED outside_registry

\* the measurement strings managers send
MeasurementHexInputs ==
    {<<" ">> \o to_uppercase(hex_encode(Meas1)) \o <<" ">>,
     [i \in 1..(2 * MeasurementLen) |-> "z"]}

\* AttestationMeasurement, without name, created_at and updated_at, which no handler reads
Measurement(hex, status) == [measurement_hex |-> hex, status |-> status]

add_measurement(caller, measurement_hex) ==
    LET hex_str == to_lowercase(trim(measurement_hex))
        keep(r) == [requirements |-> requirements, result |-> r]
    IN  IF ~verify_manager(caller).ok THEN keep(verify_manager(caller))
        ELSE IF ~hex_decode(hex_str).ok
        THEN keep(Err("InvalidInput", <<"Measurement must be a valid hex string.">>))
        ELSE IF \E i \in 1..Len(requirements.measurements) :
                    requirements.measurements[i].measurement_hex = hex_str
        THEN keep(Err("InvalidInput", <<"Measurement already exists.">>))
        ELSE [requirements |->
                 [requirements EXCEPT !.measurements =
                     Append(requirements.measurements, Measurement(hex_str, "Active"))],
              result |-> Ok(<< >>)]

update_measurement_status(caller, measurement_hex, status) ==
    LET hex_str == to_lowercase(trim(measurement_hex))
        ms == requirements.measurements
        keep(r) == [requirements |-> requirements, result |-> r]
    IN  IF ~verify_manager(caller).ok THEN keep(verify_manager(caller))
        ELSE IF \E i \in 1..Len(ms) : ms[i].measurement_hex = hex_str
        THEN [requirements |->
                 [requirements EXCEPT !.measurements =
                     [i \in 1..Len(ms) |->
                         IF /\ ms[i].measurement_hex = hex_str
                            /\ \A j \in 1..(i - 1) : ms[j].measurement_hex # hex_str
                         THEN Measurement(hex_str, status) ELSE ms[i]]],
              result |-> Ok(<< >>)]
        ELSE keep(Err("Other", <<"Measurement not found.">>))

\* Vec::retain
RECURSIVE retain_other(_, _)
retain_other(ms, hex_str) ==
    IF ms = << >> THEN << >>
    ELSE (IF Head(ms).measurement_hex # hex_str THEN <<Head(ms)>> ELSE << >>)
         \o retain_other(Tail(ms), hex_str)

remove_measurement(caller, measurement_hex) ==
    LET hex_str == to_lowercase(trim(measurement_hex))
        kept == retain_other(requirements.measurements, hex_str)
        keep(r) == [requirements |-> requirements, result |-> r]
    IN  IF ~verify_manager(caller).ok THEN keep(verify_manager(caller))
        ELSE IF Len(kept) = Len(requirements.measurements)
        THEN keep(Err("Other", <<"Measurement not found.">>))
        ELSE [requirements |-> [requirements EXCEPT !.measurements = kept],
              result |-> Ok(<< >>)]

update_attestation_policies(caller, req) ==
    IF ~verify_manager(caller).ok
    THEN [requirements |-> requirements, result |-> verify_manager(caller)]
    ELSE [requirements |-> WithMeasurements(req, requirements.measurements),
          result |-> Ok(<< >>)]

\* a removal that at once ends the session of every node
RemoveMeasurementEvicting ==
    /\ \E caller \in GovCallers, h \in MeasurementHexInputs :
          /\ requirements' = remove_measurement(caller, h).requirements
          /\ requirements' # requirements
    /\ nodes' = [n \in DOMAIN nodes |-> Scrubbed(nodes[n])]
    /\ index' = EmptyMap
    /\ UNCHANGED <<next_node_id, managers, now>>
    /\ UNCHANGED outside_registry

AddMeasurement ==
    /\ \E caller \in GovCallers, h \in MeasurementHexInputs :
          /\ requirements' = add_measurement(caller, h).requirements
    /\ UNCHANGED <<nodes, index, next_node_id, managers, now>>
    /\ UNCHANGED outside_registry

UpdateMeasurementStatus ==
    /\ \E caller \in GovCallers, h \in MeasurementHexInputs, st \in MeasurementStatuses :
          /\ requirements' = update_measurement_status(caller, h, st).requirements
    /\ UNCHANGED <<nodes, index, next_node_id, managers, now>>
    /\ UNCHANGED outside_registry

RemoveMeasurement ==
    /\ \E caller \in GovCallers, h \in MeasurementHexInputs :
          /\ requirements' = remove_measurement(caller, h).requirements
    /\ UNCHANGED <<nodes, index, next_node_id, managers, now>>
    /\ UNCHANGED outside_registry

UpdateAttestationPolicies ==
    /\ \E caller \in GovCallers, req \in PolicyRequests :
          /\ requirements' = update_attestation_policies(caller, req).requirements
    /\ UNCHANGED <<nodes, index, next_node_id, managers, now>>
    /\ UNCHANGED outside_registry

(* ------------------------------ the host ------------------------------- *)

\* u64::to_string
Digits == <<"0", "1", "2", "3", "4", "5", "6", "7", "8", "9">>

RECURSIVE to_string(_)
to_string(n) ==
    IF n < 10 THEN <<Digits[n + 1]>>
    ELSE to_string(n \div 10) \o <<Digits[(n % 10) + 1]>>

\* a unit file gpt_node_{id}.service, as far as the port flag of ExecStart goes
Unit(flag, port) == [flag |-> flag, port |-> port]

\* Regex "<flag> (\d+)" on the content of a unit file
capture_port(unit, flag) == IF unit.flag = flag THEN Some(unit.port) ELSE None

\* the range add_service searches for a free port, [start, end)
PORT_RANGE_START == 8000
PORT_RANGE_END == 9000

\* port_manager::get_allocated_ports
get_allocated_ports(dir) ==
    IF dir = None THEN {}
    ELSE {unwrap(capture_port(unwrap(dir)[id], "--port")) :
             id \in {i \in DOMAIN unwrap(dir) :
                        is_some(capture_port(unwrap(dir)[i], "--port"))}}

\* port_manager::get_assigned_port
get_assigned_port(dir, node_id) ==
    IF dir = None \/ node_id \notin DOMAIN unwrap(dir) THEN None
    ELSE capture_port(unwrap(dir)[node_id], "--port")

\* port_manager::find_free_port; `bound` are the ports the OS refuses to bind
find_free_port(start, end, excluded, bound) ==
    LET free == {port \in start..(end - 1) : port \notin excluded /\ port \notin bound}
    IN  IF free = {} THEN None
        ELSE Some(CHOOSE port \in free : \A other \in free : port <= other)

\* service::add_service: the service directory after the call, and the result
add_service(dir, node_id, port_opt, bound) ==
    LET port == IF is_some(port_opt) THEN port_opt
                ELSE IF is_some(get_assigned_port(dir, node_id))
                THEN get_assigned_port(dir, node_id)
                ELSE find_free_port(PORT_RANGE_START, PORT_RANGE_END,
                                    get_allocated_ports(dir), bound)
    IN  IF port = None
        THEN [dir |-> dir, result |-> Err("anyhow", <<"No free ports available">>)]
        ELSE IF dir = None
        THEN [dir |-> dir, result |-> Err("anyhow", <<"Failed to write service file">>)]
        ELSE [dir |-> Some(MapInsert(unwrap(dir), node_id, Unit("-p", unwrap(port)))),
              result |-> Ok(<< >>)]

\* service::remove_service
remove_service(dir, node_id) ==
    IF dir = None \/ node_id \notin DOMAIN unwrap(dir)
    THEN [dir |-> dir, result |-> Err("anyhow", <<"Service does not exist.">>)]
    ELSE [dir |-> Some(MapRemove(unwrap(dir), node_id)), result |-> Ok(<< >>)]

\* the node ids operators install units for, and the ports they ask for
UnitIds == 1..MaxNodes
PortRequests == {None, Some(PORT_RANGE_START + 1)}
BoundPorts == {{}, {PORT_RANGE_START}}

AddService ==
    /\ \E node_id \in UnitIds, port_opt \in PortRequests, bound \in BoundPorts :
          units' = add_service(units, node_id, port_opt, bound).dir
    /\ UNCHANGED <<outside_host, cache, table, router>>

RemoveService ==
    /\ \E node_id \in UnitIds : units' = remove_service(units, node_id).dir
    /\ UNCHANGED <<outside_host, cache, table, router>>

\* get_provisioning_info, a query of the registry anyone may call
get_provisioning_info(node_id) ==
    IF node_id \notin DOMAIN nodes THEN NodeNotFound
    ELSE Ok(<<[hostname |-> nodes[node_id].hostname,
               model_id |-> nodes[node_id].model_id,
               owner |-> nodes[node_id].owner,
               is_active |-> nodes[node_id].lifecycle_status = "Active"]>>)

\* client::fetch_node_config; the call fails when the registry is not reachable
fetch_node_config(node_id, reachable) ==
    IF ~reachable
    THEN Err("anyhow", <<"Failed to call get_provisioning_info on index canister">>)
    ELSE IF ~get_provisioning_info(node_id).ok
    THEN Err("anyhow", <<"Canister returned an error">>)
    ELSE Ok(<<[hostname |-> unwrap(get_provisioning_info(node_id).msg).hostname,
               model_id |-> unwrap(get_provisioning_info(node_id).msg).model_id]>>)

NodeMeta(node_id, port, hostname) ==
    [node_id |-> node_id, port |-> port, hostname |-> hostname]

\* extract_subdomain: hostname.split('.').next()
RECURSIVE extract_subdomain(_)
extract_subdomain(hostname) ==
    IF hostname = << >> \/ Head(hostname) = "." THEN << >>
    ELSE <<Head(hostname)>> \o extract_subdomain(Tail(hostname))

\* sync_state, the scan: the cache entry of one unit file with a port
scan_unit(c, node_id, port, reachable) ==
    LET meta == IF node_id \in DOMAIN c /\ c[node_id].port = port
                THEN c[node_id]
                ELSE NodeMeta(node_id, port,
                              IF node_id \in DOMAIN c THEN c[node_id].hostname ELSE None)
        cfg == fetch_node_config(node_id, reachable)
    IN  IF meta.hostname = None /\ cfg.ok
        THEN [meta EXCEPT !.hostname = Some(unwrap(cfg.msg).hostname)]
        ELSE meta

\* the keys of one cache entry without the first label of the hostname
routing_keys_without_label(meta) ==
    <<to_string(meta.node_id)>>
    \o (IF is_some(meta.hostname) THEN <<unwrap(meta.hostname)>> ELSE << >>)

\* sync_state, the rebuild: the keys of one cache entry, in the order of insertion
routing_keys(meta) ==
    <<to_string(meta.node_id)>>
    \o (IF is_some(meta.hostname)
        THEN <<unwrap(meta.hostname)>>
             \o (IF extract_subdomain(unwrap(meta.hostname)) # unwrap(meta.hostname)
                 THEN <<extract_subdomain(unwrap(meta.hostname))>> ELSE << >>)
        ELSE << >>)

RECURSIVE insert_keys(_, _, _)
insert_keys(t, keys, port) ==
    IF keys = << >> THEN t
    ELSE insert_keys(MapInsert(t, Head(keys), port), Tail(keys), port)

\* `order` is the order in which HashMap::values yields the cache
RECURSIVE rebuild_table(_, _, _)
rebuild_table(c, order, t) ==
    IF order = << >> THEN t
    ELSE rebuild_table(c, Tail(order),
                       insert_keys(t, routing_keys(c[Head(order)]), c[Head(order)].port))

\* sync_state: the cache and the routing table after one refresh
sync_state(dir, c, t, reachable, order) ==
    IF dir = None THEN [cache |-> c, table |-> t]
    ELSE LET active_node_ids ==
                 {id \in DOMAIN unwrap(dir) : is_some(capture_port(unwrap(dir)[id], "-p"))}
             new_cache ==
                 [id \in active_node_ids |->
                     scan_unit(c, id, unwrap(capture_port(unwrap(dir)[id], "-p")),
                               reachable[id])]
         IN  [cache |-> new_cache, table |-> rebuild_table(new_cache, order, EmptyMap)]

\* the orders a set of node ids can be visited in
Orders(ids) ==
    {o \in [1..Cardinality(ids) -> ids] :
        \A i, j \in 1..Cardinality(ids) : i # j => o[i] # o[j]}

\* the node ids sync_state finds a unit file with a port for
ScannedIds ==
    IF units = None THEN {}
    ELSE {id \in DOMAIN unwrap(units) : is_some(capture_port(unwrap(units)[id], "-p"))}

\* run_watcher: one turn of the loop, every 30 s or on SIGHUP
SyncState ==
    /\ \E reachable \in [UnitIds -> BOOLEAN], order \in Orders(ScannedIds) :
          LET o == sync_state(units, cache, table, reachable, order)
          IN  /\ cache' = o.cache
              /\ table' = o.table
    /\ UNCHANGED <<outside_host, units, router>>

\* the registry with one manager, one measurement and its nodes, and the host
\* that runs the guests
HostNext ==
    \/ CreateNode
    \/ RegisterNode
    \/ UnregisterNode
    \/ Heartbeat
    \/ ClaimManagerRole
    \/ AddMeasurement
    \/ UpdateMeasurementStatus
    \/ AddService
    \/ RemoveService
    \/ SyncState

HostSpec == Init /\ [][HostNext]_vars

(* ------------------ heartbeat task and liveness timer ------------------- *)

\* gpt_node, lifecycle/heartbeat.rs, in seconds
HEARTBEAT_INTERVAL_S == 540
HEARTBEAT_ATTEMPT_TIMEOUT == 65
HEARTBEAT_INTERNAL_RETRY_DELAY == 5

\* the guest of the model and the node it registers as
PulseGuest == NodeP1
PulseNode == 1

\* the operator configures the registry before the guest's clock starts
OperatorSetsUp ==
    /\ now = 0
    /\ pulse.pc = "off"
    /\ (ClaimManagerRole \/ AddMeasurement \/ CreateNode)

\* main: perform_startup registers the node, then spawn_heartbeat_task arms
\* an interval of HEARTBEAT_INTERVAL_S whose first tick is consumed at once
GuestStarts ==
    /\ pulse.pc = "off"
    /\ LET o == register_node(PulseGuest,
                              HonestReq(PulseNode, PulseGuest, now, Meas1, ChipA, "Milan"))
       IN  /\ o.result.ok
           /\ nodes' = o.nodes
           /\ index' = o.index
    /\ pulse' = [pulse EXCEPT !.pc = "sleep", !.next_cycle = now + HEARTBEAT_INTERVAL_S]
    /\ UNCHANGED <<requirements, next_node_id, managers, now>>
    /\ UNCHANGED outside_pulse

\* time passes, up to the next instant at which something is due: the tick of
\* the liveness timer, the tick of the guest's interval, and, within an
\* attempt, the last instant before HEARTBEAT_ATTEMPT_TIMEOUT has elapsed
PulsePass ==
    /\ now + PulseTick <= MaxPulseTime
    /\ now + PulseTick <= pulse.next_tick
    /\ pulse.pc = "sleep" => now + PulseTick <= pulse.next_cycle
    /\ pulse.pc = "attempt" =>
           now + PulseTick - pulse.attempt_start < HEARTBEAT_ATTEMPT_TIMEOUT
    /\ now' = now + PulseTick
    /\ UNCHANGED <<nodes, index, requirements, next_node_id, managers, pulse>>
    /\ UNCHANGED outside_pulse

\* spawn_heartbeat_task: interval.tick() returns and
\* perform_single_heartbeat_attempt takes attempt_start_time
HeartbeatCycleStarts ==
    /\ pulse.pc = "sleep"
    /\ now = pulse.next_cycle
    /\ pulse' = [pulse EXCEPT !.pc = "attempt", !.attempt_start = now,
                              !.next_cycle = now + HEARTBEAT_INTERVAL_S]
    /\ UNCHANGED registry
    /\ UNCHANGED outside_pulse

\* perform_single_heartbeat_attempt: a call of the attempt reaches the index
\* and is answered; the time since attempt_start went into the calls that
\* failed, each followed by HEARTBEAT_INTERNAL_RETRY_DELAY, and into this call
HeartbeatAnswered ==
    /\ pulse.pc = "attempt"
    /\ now - pulse.attempt_start < HEARTBEAT_ATTEMPT_TIMEOUT
    /\ LET o == heartbeat(PulseGuest)
       IN  /\ nodes' = o.nodes
           /\ index' = o.index
           /\ pulse' = [pulse EXCEPT
                           !.pc = IF o.result = Ok(<<"Continue">>) THEN "sleep" ELSE "stopped"]
    /\ UNCHANGED <<requirements, next_node_id, managers, now>>
    /\ UNCHANGED outside_pulse

\* setup_liveness_timer: the interval timer armed at init runs
\* check_node_liveness_tick every LIVENESS_CHECK_INTERVAL
LivenessTimerTick ==
    /\ now = pulse.next_tick
    /\ nodes' = check_node_liveness_tick.nodes
    /\ index' = check_node_liveness_tick.index
    /\ pulse' = [pulse EXCEPT !.next_tick = now + LIVENESS_CHECK_INTERVAL]
    /\ UNCHANGED <<requirements, next_node_id, managers, now>>
    /\ UNCHANGED outside_pulse

\* one guest that registers and then sends its heartbeats on schedule, and
\* the registry with its liveness timer
PulseNext ==
    \/ OperatorSetsUp
    \/ GuestStarts
    \/ PulsePass
    \/ HeartbeatCycleStarts
    \/ HeartbeatAnswered
    \/ LivenessTimerTick

PulseSpec == Init /\ [][PulseNext]_vars

(* ------------------------------ the router ----------------------------- *)

\* RwLock::read and RwLock::write: when the lock can be taken
can_read(l) == ~l.writer
can_write(l) == ~l.writer /\ l.readers = {}

\* sync_state, the swap: `*w = new_table.clone()`
swap_merging(w, new_table) ==
    [key \in DOMAIN w \cup DOMAIN new_table |->
        IF key \in DOMAIN new_table THEN new_table[key] ELSE w[key]]

swap(w, new_table) == new_table

\* sync_state up to the swap: scan, hostname fetches, prune and rebuild
WatcherRebuild ==
    /\ watcher.pc = "sleep"
    /\ \E reachable \in [UnitIds -> BOOLEAN], order \in Orders(ScannedIds) :
          LET o == sync_state(units, cache, table, reachable, order)
          IN  /\ cache' = o.cache
              /\ watcher' = IF units = None THEN watcher
                            ELSE [pc |-> "built", new_table |-> o.table]
    /\ UNCHANGED <<outside_host, units, table, lock, proxy>>

\* sync_state: table.write().await
WatcherWrite ==
    /\ watcher.pc = "built"
    /\ can_write(lock)
    /\ lock' = [lock EXCEPT !.writer = TRUE]
    /\ watcher' = [watcher EXCEPT !.pc = "writing"]
    /\ UNCHANGED <<outside_host, units, cache, table, proxy>>

\* sync_state: the assignment under the write guard
WatcherSwap ==
    /\ watcher.pc = "writing"
    /\ table' = swap(table, watcher.new_table)
    /\ watcher' = [watcher EXCEPT !.pc = "swapped"]
    /\ UNCHANGED <<outside_host, units, cache, lock, proxy>>

\* sync_state: the write guard is dropped and the watcher sleeps until the next
\* poll or signal
WatcherRelease ==
    /\ watcher.pc = "swapped"
    /\ lock' = [lock EXCEPT !.writer = FALSE]
    /\ watcher' = [watcher EXCEPT !.pc = "sleep"]
    /\ UNCHANGED <<outside_host, units, cache, table, proxy>>

\* proxy_handler: the Host header without its port, `split(':').next()`
RECURSIVE strip_port(_)
strip_port(header) ==
    IF header = << >> \/ Head(header) = ":" THEN << >>
    ELSE <<Head(header)>> \o strip_port(Tail(header))

\* the Host headers of the requests that arrive
HostHeaders == {to_string(1), to_string(2) \o <<":", "9">>}

\* proxy_handler: a request arrives and its host is taken from the header
ProxyArrive ==
    /\ \E r \in 1..MaxRequests, header \in HostHeaders :
          /\ proxy[r].pc = "idle"
          /\ proxy' = [proxy EXCEPT ![r] = [pc |-> "arrived", host |-> strip_port(header),
                                           target_port |-> None]]
    /\ UNCHANGED <<outside_host, units, cache, table, lock, watcher>>

\* proxy_handler: state.table.read().await
ProxyRead ==
    /\ \E r \in 1..MaxRequests :
          /\ proxy[r].pc = "arrived"
          /\ can_read(lock)
          /\ lock' = [lock EXCEPT !.readers = @ \cup {r}]
          /\ proxy' = [proxy EXCEPT ![r].pc = "reading"]
    /\ UNCHANGED <<outside_host, units, cache, table, watcher>>

\* proxy_handler: r.get(host).copied(), and the read guard is dropped
ProxyGet ==
    /\ \E r \in 1..MaxRequests :
          /\ proxy[r].pc = "reading"
          /\ lock' = [lock EXCEPT !.readers = @ \ {r}]
          /\ proxy' = [proxy EXCEPT ![r].pc = "looked_up",
                                    ![r].target_port = MapGet(table, proxy[r].host)]
    /\ UNCHANGED <<outside_host, units, cache, table, watcher>>

\* proxy_handler: 404 without a port, else the request is forwarded to the port
ProxyRespond ==
    /\ \E r \in 1..MaxRequests :
          /\ proxy[r].pc = "looked_up"
          /\ proxy' = [proxy EXCEPT ![r] = [pc |-> "idle", host |-> << >>,
                                           target_port |-> None]]
    /\ UNCHANGED <<outside_host, units, cache, table, lock, watcher>>

\* the router process: the watcher task and the proxy handlers, with the unit
\* files changing under them
RouterNext ==
    \/ AddService
    \/ RemoveService
    \/ WatcherRebuild
    \/ WatcherWrite
    \/ WatcherSwap
    \/ WatcherRelease
    \/ ProxyArrive
    \/ ProxyRead
    \/ ProxyGet
    \/ ProxyRespond

RouterSpec == Init /\ [][RouterNext]_vars

(* ------------------------------ the guest ------------------------------ *)

\* the stream keys of the jobs clients ask for
StreamKeys == {"canister:1", "canister:2"}

\* what the heartbeat call can give the guest: a command, an error the guest
\* does not retry, or an error it retries
HeartbeatOutcomes ==
    {Ok(<<"Continue">>), Ok(<<"DrainAndShutdown">>), Ok(<<"Abort">>),
     Unauthorized, NodeNotFound, Err("Agent", <<"transport">>)}

\* handle_socket_connection, the gatekeeper
gate_always_open(is_draining) == FALSE

rejects_connection(is_draining) == is_draining

\* ws_handler: a client connects and the connection is upgraded
GuestConnect ==
    /\ guest.main = "serving"
    /\ \E c \in 1..MaxConnections :
          /\ guest.connections[c].pc = "none"
          /\ guest' = [guest EXCEPT !.connections[c].pc = "upgraded"]
    /\ UNCHANGED outside_guest

\* handle_socket_connection: the gatekeeper closes the socket of a draining
\* node, else the handler waits for the initial request
GuestGate ==
    /\ guest.main # "exited"
    /\ \E c \in 1..MaxConnections :
          /\ guest.connections[c].pc = "upgraded"
          /\ guest' = [guest EXCEPT !.connections[c].pc =
                           IF rejects_connection(guest.is_draining)
                           THEN "none" ELSE "handshake"]
    /\ UNCHANGED outside_guest

\* handle_socket_connection: the initial request arrives and
\* subscribe_to_job_stream inserts its stream key, or the request fails
GuestSubscribe ==
    /\ guest.main # "exited"
    /\ \E c \in 1..MaxConnections, request \in {None} \cup {Some(k) : k \in StreamKeys} :
          /\ guest.connections[c].pc = "handshake"
          /\ guest' = IF request = None
                       THEN [guest EXCEPT !.connections[c].pc = "none"]
                       ELSE [guest EXCEPT !.connections[c] =
                                              [pc |-> "streaming", stream_key |-> request],
                                          !.job_streams = @ \cup {unwrap(request)}]
    /\ UNCHANGED outside_guest

\* handle_socket_connection: the stream has been forwarded and the socket closes
GuestDisconnect ==
    /\ guest.main # "exited"
    /\ \E c \in 1..MaxConnections :
          /\ guest.connections[c].pc = "streaming"
          /\ guest' = [guest EXCEPT !.connections[c] = [pc |-> "none", stream_key |-> None]]
    /\ UNCHANGED outside_guest

\* the job task: complete_job has been called and the stream is removed
GuestJobDone ==
    /\ guest.main # "exited"
    /\ \E k \in guest.job_streams : guest' = [guest EXCEPT !.job_streams = @ \ {k}]
    /\ UNCHANGED outside_guest

\* spawn_heartbeat_task: interval.tick()
GuestHeartbeatTick ==
    /\ guest.main # "exited"
    /\ guest.heartbeat_task = "sleeping"
    /\ guest' = [guest EXCEPT !.heartbeat_task =
                     IF guest.shutdown THEN "stopped" ELSE "attempt"]
    /\ UNCHANGED outside_guest

\* perform_single_heartbeat_attempt: the state of the guest after one turn of
\* its loop; `budget_spent` is whether the 65 s of the attempt have passed
heartbeat_attempt(g, budget_spent, outcome) ==
    IF budget_spent
    THEN [g EXCEPT !.heartbeat_task = "stopped", !.shutdown = TRUE]
    ELSE IF g.shutdown
    THEN [g EXCEPT !.heartbeat_task = "sleeping"]
    ELSE IF outcome = Ok(<<"Continue">>)
    THEN [g EXCEPT !.heartbeat_task = "sleeping"]
    ELSE IF outcome = Ok(<<"DrainAndShutdown">>)
    THEN [g EXCEPT !.is_draining = TRUE, !.shutdown = TRUE,
                   !.heartbeat_task = "stopped", !.since_drain = Some(0)]
    ELSE IF outcome = Ok(<<"Abort">>)
    THEN [g EXCEPT !.main = "exited", !.exit_code = Some(1), !.heartbeat_task = "stopped"]
    ELSE IF outcome \in {Unauthorized, NodeNotFound}
    THEN [g EXCEPT !.heartbeat_task = "stopped", !.shutdown = TRUE]
    ELSE g

GuestHeartbeatAttempt ==
    /\ guest.main # "exited"
    /\ guest.heartbeat_task = "attempt"
    /\ \E budget_spent \in BOOLEAN, outcome \in HeartbeatOutcomes :
          guest' = heartbeat_attempt(guest, budget_spent, outcome)
    /\ UNCHANGED outside_guest

\* graceful_shutdown_signal, the flag monitor: with the flag set the server
\* stops and main goes on to wait_for_jobs_completion
GuestFlagMonitor ==
    /\ guest.main = "serving"
    /\ guest.flag_monitor = 0
    /\ guest' = IF guest.shutdown
                 THEN [guest EXCEPT !.main = "waiting", !.wait = [elapsed |-> 0, sleep |-> 0]]
                 ELSE [guest EXCEPT !.flag_monitor = FLAG_POLL_INTERVAL]
    /\ UNCHANGED outside_guest

\* graceful_shutdown_signal: Ctrl+C or SIGTERM
GuestSignal ==
    /\ guest.main = "serving"
    /\ guest' = [guest EXCEPT !.shutdown = TRUE, !.main = "waiting",
                              !.wait = [elapsed |-> 0, sleep |-> 0]]
    /\ UNCHANGED outside_guest

\* wait_for_jobs_completion: one turn of its loop
GuestWaitPoll ==
    /\ guest.main = "waiting"
    /\ guest.wait.sleep = 0
    /\ guest' = IF guest.job_streams = {} \/ guest.wait.elapsed >= MAX_WAIT
                 THEN [guest EXCEPT !.main = "unregistering"]
                 ELSE [guest EXCEPT !.wait.sleep = POLL_INTERVAL]
    /\ UNCHANGED outside_guest

\* main: unregister_node has returned, with or without an error, and the
\* process exits
GuestExit ==
    /\ guest.main = "unregistering"
    /\ guest' = [guest EXCEPT !.main = "exited", !.exit_code = Some(0),
                              !.heartbeat_task = "stopped"]
    /\ UNCHANGED outside_guest

\* a second passes in the guest; a sleep that has run out is served first
GuestElapse ==
    /\ guest.main # "exited"
    /\ guest.main = "serving" => guest.flag_monitor > 0
    /\ guest.main = "waiting" => guest.wait.sleep > 0
    /\ guest' = [guest EXCEPT
                    !.flag_monitor = IF guest.main = "serving" THEN @ - 1 ELSE @,
                    !.wait = IF guest.main = "waiting"
                             THEN [elapsed |-> @.elapsed + 1, sleep |-> @.sleep - 1]
                             ELSE @,
                    !.since_drain = IF is_some(@) /\ unwrap(@) < MaxDrainClock
                                    THEN Some(unwrap(@) + 1) ELSE @]
    /\ UNCHANGED outside_guest

GuestNext ==
    \/ GuestConnect
    \/ GuestGate
    \/ GuestSubscribe
    \/ GuestDisconnect
    \/ GuestJobDone
    \/ GuestHeartbeatTick
    \/ GuestHeartbeatAttempt
    \/ GuestFlagMonitor
    \/ GuestSignal
    \/ GuestWaitPoll
    \/ GuestExit
    \/ GuestElapse

GuestSpec == Init /\ [][GuestNext]_vars

(* ------------------------------ the launch ----------------------------- *)

SEED_LENGTH == 24
HOST_DATA_LENGTH == 32
NODE_ID_LENGTH == 8

\* the SEV-SNP guest policy the host passes to QEMU, 0x30000
POLICY == 196608

\* bit `b` of the mask x
Bit(x, b) == (x \div (2 ^ b)) % 2

\* the bytes from..to of a sequence, counted from 0, `to` excluded
Slice(bytes, from, to) == SubSeq(bytes, from + 1, to)

\* the seeds the generator and the operator can put into the seed file
SeedInputs ==
    {Bytes(SEED_LENGTH, 0), [i \in 1..SEED_LENGTH |-> i], Bytes(SEED_LENGTH, 255),
     [i \in 1..SEED_LENGTH |-> (37 * i + 11) % 256]}

\* the files an operator can name with --seed-path: seeds, and files that are
\* shorter or longer than a seed
SeedFileInputs ==
    SeedInputs
    \cup {<< >>, [i \in 1..(SEED_LENGTH - 1) |-> i], [i \in 1..(SEED_LENGTH + 1) |-> i],
          Bytes(SEED_LENGTH + 1, 0)}

\* the node ids a VM is launched for
LaunchIds == {0, 1, 2, 255, 256, 65536, 2147483647}

\* load_seed: read_exact fills the 24 bytes of the buffer from the file
load_seed(file) ==
    IF file = None
    THEN Err("anyhow", <<"Node seed file not found">>)
    ELSE IF Len(unwrap(file)) < SEED_LENGTH
    THEN Err("anyhow", <<"Failed to read seed file">>)
    ELSE Ok(<<Slice(unwrap(file), 0, SEED_LENGTH)>>)

\* the standard base64 alphabet
Base64Alphabet ==
    <<"A", "B", "C", "D", "E", "F", "G", "H", "I", "J", "K", "L", "M", "N", "O", "P",
      "Q", "R", "S", "T", "U", "V", "W", "X", "Y", "Z", "a", "b", "c", "d", "e", "f",
      "g", "h", "i", "j", "k", "l", "m", "n", "o", "p", "q", "r", "s", "t", "u", "v",
      "w", "x", "y", "z", "0", "1", "2", "3", "4", "5", "6", "7", "8", "9", "+", "/">>

Base64Char(sextet) == Base64Alphabet[sextet + 1]
Base64Value(c) == (CHOOSE i \in 1..64 : Base64Alphabet[i] = c) - 1

\* base64::engine::general_purpose::STANDARD.encode
RECURSIVE base64_encode(_)
base64_encode(bytes) ==
    IF bytes = << >> THEN << >>
    ELSE IF Len(bytes) = 1
    THEN <<Base64Char(bytes[1] \div 4), Base64Char((bytes[1] % 4) * 16), "=", "=">>
    ELSE IF Len(bytes) = 2
    THEN <<Base64Char(bytes[1] \div 4),
           Base64Char((bytes[1] % 4) * 16 + bytes[2] \div 16),
           Base64Char((bytes[2] % 16) * 4), "=">>
    ELSE <<Base64Char(bytes[1] \div 4),
           Base64Char((bytes[1] % 4) * 16 + bytes[2] \div 16),
           Base64Char((bytes[2] % 16) * 4 + bytes[3] \div 64),
           Base64Char(bytes[3] % 64)>>
         \o base64_encode(SubSeq(bytes, 4, Len(bytes)))

\* the hypervisor's decoding of the host-data argument
RECURSIVE base64_decode(_)
base64_decode(chars) ==
    IF chars = << >> THEN << >>
    ELSE LET a == Base64Value(chars[1])
             b == Base64Value(chars[2])
         IN  IF chars[3] = "="
             THEN <<a * 4 + b \div 16>>
             ELSE IF chars[4] = "="
             THEN <<a * 4 + b \div 16, (b % 16) * 16 + Base64Value(chars[3]) \div 4>>
             ELSE <<a * 4 + b \div 16, (b % 16) * 16 + Base64Value(chars[3]) \div 4,
                    (Base64Value(chars[3]) % 4) * 64 + Base64Value(chars[4])>>
                  \o base64_decode(SubSeq(chars, 5, Len(chars)))

\* launch_node_vm, step 2: node_id little-endian, then the seed
host_data_block(node_id, seed) == to_le_bytes(node_id) \o seed

\* launch_node_vm: an error, or the arguments QEMU replaces the process with
launch_node_vm(host_port, node_id, file, assets_ok) ==
    IF ~assets_ok
    THEN Err("anyhow", <<"Failed to ensure VM assets">>)
    ELSE IF ~load_seed(file).ok
    THEN load_seed(file)
    ELSE Ok(<<[name |-> node_id,
               host_data |-> base64_encode(host_data_block(node_id,
                                                           unwrap(load_seed(file).msg))),
               policy |-> POLICY,
               hostfwd |-> host_port]>>)

\* SHA-256 stands for any function of the bytes hashed: the 32 bytes of the
\* digest are weighted sums of the input
RECURSIVE weighted_sum(_, _, _)
weighted_sum(bytes, i, j) ==
    IF j > Len(bytes) THEN 0
    ELSE (bytes[j] * (i + j) + weighted_sum(bytes, i, j + 1)) % 256

sha256_finalize(bytes) == [i \in 1..32 |-> weighted_sum(bytes, i, 1)]

\* x & mask and x | mask on a byte, for the masks the clamp uses
clear_low_bits(x, n) == x - (x % (2 ^ n))
clear_bit(x, b) == x - Bit(x, b) * (2 ^ b)
set_bit(x, b) == x + (1 - Bit(x, b)) * (2 ^ b)

\* b"gpt_host_age_key_derivation_v1"
HostDomainTag ==
    <<103, 112, 116, 95, 104, 111, 115, 116, 95, 97, 103, 101, 95, 107, 101, 121, 95,
      100, 101, 114, 105, 118, 97, 116, 105, 111, 110, 95, 118, 49>>

\* gpt_host, seed_to_x25519_key
seed_to_x25519_key(seed) ==
    LET result == sha256_finalize(HostDomainTag \o seed)
    IN  [result EXCEPT ![1] = clear_low_bits(@, 3),
                       ![32] = set_bit(clear_bit(@, 7), 6)]

\* b"gpt_host_age_key_derivation_v1", as gpt_node spells it
GuestDomainTag ==
    <<103, 112, 116, 95, 104, 111, 115, 116, 95, 97, 103, 101, 95, 107, 101, 121, 95,
      100, 101, 114, 105, 118, 97, 116, 105, 111, 110, 95, 118, 49>>

\* a guest derivation that leaves bit 6 of the last byte as the digest has it
guest_key_without_high_bit(seed) ==
    LET result == sha256_finalize(GuestDomainTag \o seed)
    IN  [result EXCEPT ![1] = clear_low_bits(@, 3),
                       ![32] = clear_bit(@, 7)]

\* gpt_node, seed_to_x25519_key
guest_seed_to_x25519_key(seed) ==
    LET result == sha256_finalize(GuestDomainTag \o seed)
    IN  [result EXCEPT ![1] = clear_low_bits(@, 3),
                       ![32] = set_bit(clear_bit(@, 7), 6)]

\* the first byte alone, as a cast to u8 would read it
from_first_byte(bytes) == IF bytes = << >> THEN 0 ELSE bytes[1]

\* u64::from_le_bytes
RECURSIVE from_le_bytes(_)
from_le_bytes(bytes) ==
    IF bytes = << >> THEN 0 ELSE bytes[1] + 256 * from_le_bytes(Tail(bytes))

\* extract_host_data, on the host_data field of the parsed report: the node
\* id, the seed it cuts out, and the identity it derives from the seed
extract_host_data(host_data) ==
    IF \A i \in 1..Len(host_data) : host_data[i] = 0
    THEN Err("Attestation", <<"Host data is all zeros">>)
    ELSE IF Len(host_data) # HOST_DATA_LENGTH
    THEN Err("Attestation", <<"Host data length">>)
    ELSE Ok(<<[node_id |-> from_le_bytes(Slice(host_data, 0, NODE_ID_LENGTH)),
               seed |-> Slice(host_data, NODE_ID_LENGTH, HOST_DATA_LENGTH),
               identity |-> guest_seed_to_x25519_key(
                                Slice(host_data, NODE_ID_LENGTH, HOST_DATA_LENGTH))]>>)

\* what the guest of a launch gets from extract_host_data
guest_parse(launched) == extract_host_data(base64_decode(launched.host_data))

\* gpt_host init: generate_seed writes a fresh seed
GenerateSeed ==
    /\ \E seed \in SeedInputs : seed_file' = Some(seed)
    /\ UNCHANGED <<outside_launcher, launch, identity>>

\* --seed-path: the operator names a file of its own, or none
ProvideSeedFile ==
    /\ \E file \in {None} \cup {Some(bytes) : bytes \in SeedFileInputs} : seed_file' = file
    /\ UNCHANGED <<outside_launcher, launch, identity>>

\* gpt_host launch
LaunchNodeVm ==
    /\ \E node_id \in LaunchIds, assets_ok \in BOOLEAN :
          launch' = launch_node_vm(PORT_RANGE_START, node_id, seed_file, assets_ok)
    /\ UNCHANGED <<outside_launcher, seed_file, identity>>

\* gpt_node in the VM that was launched: extract_host_data on its report
ExtractHostData ==
    /\ launch # None
    /\ launch.ok
    /\ identity' = guest_parse(unwrap(launch.msg))
    /\ UNCHANGED <<outside_launcher, seed_file, launch>>

LaunchNext ==
    \/ GenerateSeed
    \/ ProvideSeedFile
    \/ LaunchNodeVm
    \/ ExtractHostData

LaunchSpec == Init /\ [][LaunchNext]_vars

(* ------------------------------ the KDS fetch -------------------------- *)

\* gpt_node, in seconds: the back-off between two rounds of requests, the
\* budget of the fetch, and the time-out of one request
KDS_RETRY_DELAY == 5
KDS_TIMEOUT == 300
KDS_REQUEST_TIMEOUT == 10

\* detect_generation_candidates
detect_generation_candidates(report) ==
    IF is_some(report.reported_tcb.fmc)
    THEN <<"Turin", "Genoa", "Milan">>
    ELSE <<"Genoa", "Milan", "Turin">>

cert_types == <<"VCEK", "VLEK">>

\* the (generation, certificate type) pairs in the order of the two loops
kds_candidates(report) ==
    [i \in 1..(3 * Len(cert_types)) |->
        [generation |-> detect_generation_candidates(report)[((i - 1) \div Len(cert_types)) + 1],
         cert_type |-> cert_types[((i - 1) % Len(cert_types)) + 1]]]

\* build_kds_url
build_kds_url(report, model, cert_type, hw_id) ==
    [endpoint |-> IF cert_type = "VCEK" THEN "vcek" ELSE "vlek",
     model |-> model,
     hw_id |-> hw_id,
     query |-> <<report.reported_tcb.bootloader, report.reported_tcb.tee,
                 report.reported_tcb.snp, report.reported_tcb.microcode>>
               \o (IF is_some(report.reported_tcb.fmc)
                   THEN <<unwrap(report.reported_tcb.fmc)>> ELSE << >>)]

\* the URL of the i-th candidate
kds_url(report, i) ==
    build_kds_url(report, kds_candidates(report)[i].generation,
                  kds_candidates(report)[i].cert_type, hex_encode(report.chip_id))

\* what client.get(url).send() gives: a response with a status and a body, or
\* a connection error
KdsResponses ==
    {[sent |-> TRUE, status |-> 200, body |-> Der(Vek("Milan"))],
     [sent |-> TRUE, status |-> 200, body |-> BadDer],
     [sent |-> TRUE, status |-> 404, body |-> BadDer],
     [sent |-> TRUE, status |-> 503, body |-> BadDer],
     [sent |-> FALSE, status |-> 0, body |-> BadDer]}

\* the seconds a request can take
KdsRequestDurations == {0, KDS_REQUEST_TIMEOUT}

\* the reports a guest fetches the endorsement key for
KdsReports ==
    {HonestBody(NodeP1, 0, Meas1, chip_id, gen) :
        chip_id \in {ChipA, Bytes(ChipIdLen, 0)}, gen \in {"Milan", "Turin"}}

\* handle_kds_response, after parse_certificate
handle_kds_response(response, cert_type) ==
    IF response.status = 200
    THEN IF response.body.parses THEN Ok(response.body)
         ELSE Err("Other", <<"Failed to parse cert as PEM after DER failure">>)
    ELSE IF response.status = 404
    THEN Err("NotFound", <<"HTTP 404 Not Found">>)
    ELSE Err("Other", <<"HTTP", response.status>>)

\* fetch_vek_certificate_retry, when fetch_kds_vek_internal has failed
kds_round_failed(k, msg) ==
    IF k.elapsed >= KDS_TIMEOUT
    THEN [k EXCEPT !.pc = "done", !.result = Some(Err("VEK fetch timed out", msg))]
    ELSE [k EXCEPT !.pc = "backoff"]

\* fetch_kds_vek_internal: one turn of its loops, with the response the
\* request got after `duration` seconds
kds_request(k, response, duration) ==
    LET report == unwrap(k.report)
        cert_type == kds_candidates(report)[k.candidate].cert_type
        handled == IF response.sent THEN handle_kds_response(response, cert_type)
                   ELSE Err("Other", <<"Network connection error">>)
        later == [k EXCEPT !.elapsed = @ + duration]
    IN  IF handled.ok
        THEN [later EXCEPT !.pc = "done", !.result = Some(Ok(handled.msg))]
        ELSE IF k.candidate < Len(kds_candidates(report))
        THEN [later EXCEPT !.candidate = @ + 1]
        ELSE kds_round_failed(later,
                 <<"Could not fetch valid VCEK or VLEK for any known generation.">>)

\* fetch_vek_certificate_retry is called for a report
KdsStart ==
    /\ kds.pc = "idle"
    /\ \E report \in KdsReports :
          kds' = [pc |-> "round", report |-> Some(report), candidate |-> 1,
                  elapsed |-> 0, result |-> None]
    /\ UNCHANGED outside_kds

\* fetch_kds_vek_internal: a report with a masked chip id fails at once
KdsMasked ==
    /\ kds.pc = "round" /\ kds.candidate = 1
    /\ \A i \in 1..Len(unwrap(kds.report).chip_id) : unwrap(kds.report).chip_id[i] = 0
    /\ kds' = kds_round_failed(kds, <<"Chip ID in report is all zeros">>)
    /\ UNCHANGED outside_kds

\* fetch_kds_vek_internal: the request for the current candidate is answered
KdsRequest ==
    /\ kds.pc = "round"
    /\ \E i \in 1..Len(unwrap(kds.report).chip_id) : unwrap(kds.report).chip_id[i] # 0
    /\ \E response \in KdsResponses, duration \in KdsRequestDurations :
          kds' = kds_request(kds, response, duration)
    /\ UNCHANGED outside_kds

\* fetch_vek_certificate_retry: sleep(KDS_RETRY_DELAY), then the next round
KdsBackoff ==
    /\ kds.pc = "backoff"
    /\ kds' = [kds EXCEPT !.pc = "round", !.candidate = 1, !.elapsed = @ + KDS_RETRY_DELAY]
    /\ UNCHANGED outside_kds

\* the guest that fetched is gone; another guest boots
KdsReboot ==
    /\ kds.pc = "done"
    /\ kds' = [pc |-> "idle", report |-> None, candidate |-> 1, elapsed |-> 0, result |-> None]
    /\ UNCHANGED outside_kds

KdsNext ==
    \/ KdsStart
    \/ KdsMasked
    \/ KdsRequest
    \/ KdsBackoff
    \/ KdsReboot

KdsSpec == Init /\ [][KdsNext]_vars

(* ------------------------------ the asset cache ------------------------ *)

\* the files extract_assets writes, in its order
AssetFiles == <<"OVMF.fd", "initrd.gz", "vmlinuz">>

\* extract_assets, step by step: create_dir_all makes the directory, then
\* each fs::write creates its file and then has written all of it
extract_step(dir, step) ==
    IF step = 0 THEN Some(EmptyMap)
    ELSE LET file == AssetFiles[(step + 1) \div 2]
         IN  Some(MapInsert(unwrap(dir), file,
                            IF step % 2 = 1 THEN "partial" ELSE "complete"))

\* the number of steps of extract_assets
ExtractSteps == 2 * Len(AssetFiles) + 1

\* target_dir.exists()
target_dir_exists(a) == is_some(a.dir)

\* ensure_assets, the check before the lock is taken
first_check(a) == target_dir_exists(a)

\* the VmAssets ensure_assets returns
VmAssets == Ok(AssetFiles)

\* gpt_host launch: ensure_assets is called
AssetsCall ==
    /\ \E l \in 1..MaxLaunches :
          /\ assets.launches[l].pc = "idle"
          /\ assets' = [assets EXCEPT !.launches[l] =
                            [pc |-> "check", step |-> 0, result |-> None]]
    /\ UNCHANGED outside_assets

\* ensure_assets: with the directory there the paths are returned, else the
\* lock file is opened
AssetsFirstCheck ==
    /\ \E l \in 1..MaxLaunches :
          /\ assets.launches[l].pc = "check"
          /\ assets' = IF first_check(assets)
                         THEN [assets EXCEPT !.launches[l].pc = "returned",
                                             !.launches[l].result = Some(VmAssets)]
                         ELSE [assets EXCEPT !.launches[l].pc = "locking"]
    /\ UNCHANGED outside_assets

\* ensure_assets: lock_exclusive returns
AssetsLock ==
    /\ assets.lock = None
    /\ \E l \in 1..MaxLaunches :
          /\ assets.launches[l].pc = "locking"
          /\ assets' = [assets EXCEPT !.lock = Some(l), !.launches[l].pc = "locked"]
    /\ UNCHANGED outside_assets

\* ensure_assets: the check under the lock
AssetsSecondCheck ==
    /\ \E l \in 1..MaxLaunches :
          /\ assets.launches[l].pc = "locked"
          /\ assets' = IF target_dir_exists(assets)
                         THEN [assets EXCEPT !.launches[l].pc = "unlock"]
                         ELSE [assets EXCEPT !.launches[l].pc = "extract",
                                             !.launches[l].step = 0]
    /\ UNCHANGED outside_assets

\* extract_assets: its next step succeeds
AssetsExtract ==
    /\ \E l \in 1..MaxLaunches :
          /\ assets.launches[l].pc = "extract"
          /\ assets' = [assets EXCEPT
                            !.dir = extract_step(assets.dir, assets.launches[l].step),
                            !.launches[l] =
                                IF @.step + 1 = ExtractSteps
                                THEN [@ EXCEPT !.pc = "unlock"]
                                ELSE [@ EXCEPT !.step = @ + 1]]
    /\ UNCHANGED outside_assets

\* extract_assets: its next step fails; ensure_assets removes the directory,
\* unlocks and returns the error
AssetsExtractFails ==
    /\ \E l \in 1..MaxLaunches :
          /\ assets.launches[l].pc = "extract"
          /\ assets' = [assets EXCEPT
                            !.dir = None,
                            !.lock = None,
                            !.launches[l].pc = "returned",
                            !.launches[l].result =
                                Some(Err("anyhow", <<"Failed to write", assets.launches[l].step>>))]
    /\ UNCHANGED outside_assets

\* ensure_assets: unlock, and the paths are returned
AssetsUnlock ==
    /\ \E l \in 1..MaxLaunches :
          /\ assets.launches[l].pc = "unlock"
          /\ assets' = [assets EXCEPT !.lock = None,
                                      !.launches[l].pc = "returned",
                                      !.launches[l].result = Some(VmAssets)]
    /\ UNCHANGED outside_assets

\* launch_node_vm goes on and the process becomes QEMU, or ends with the error
AssetsLaunchEnds ==
    /\ \E l \in 1..MaxLaunches :
          /\ assets.launches[l].pc = "returned"
          /\ assets' = [assets EXCEPT !.launches[l] =
                            [pc |-> "idle", step |-> 0, result |-> None]]
    /\ UNCHANGED outside_assets

AssetsNext ==
    \/ AssetsCall
    \/ AssetsFirstCheck
    \/ AssetsLock
    \/ AssetsSecondCheck
    \/ AssetsExtract
    \/ AssetsExtractFails
    \/ AssetsUnlock
    \/ AssetsLaunchEnds

AssetsSpec == Init /\ [][AssetsNext]_vars

(* ------------------------------ specification -------------------------- *)

Next ==
    \/ CreateNode
    \/ RegisterNode
    \/ UnregisterNode
    \/ Heartbeat
    \/ LivenessTick
    \/ AdvanceTime
    \/ GetNodeConfig
    \/ PostUpgrade
    \/ ClaimManagerRole
    \/ AddManager
    \/ RemoveManager
    \/ AddMeasurement
    \/ UpdateMeasurementStatus
    \/ RemoveMeasurement
    \/ UpdateAttestationPolicies

Spec == Init /\ [][Next]_vars

(* ------------------- the registry under a running clock ---------------- *)

\* a time stamp of a node record, moved back with the clock
rebased(stamp, shift) ==
    IF is_some(stamp) THEN Some(saturating_sub(unwrap(stamp), shift)) ELSE None

\* api::time never stops: the clock moves on by d, and once it is past MaxTime
\* the clock and every recorded time stamp are moved back by the excess. An
\* age now - stamp keeps its value up to MaxTime, which is past the liveness
\* timeout, so every comparison of the handlers gives the answer it would give
\* on the running clock.
ElapseTime ==
    /\ \E d \in TimeSteps :
          LET shift == saturating_sub(now + d, MaxTime)
          IN  /\ now' = now + d - shift
              /\ nodes' = [n \in DOMAIN nodes |->
                              [nodes[n] EXCEPT
                                  !.last_heartbeat_timestamp = rebased(@, shift),
                                  !.attestation_verified_at = rebased(@, shift)]]
    /\ UNCHANGED <<index, requirements, next_node_id, managers>>
    /\ UNCHANGED outside_registry

LiveNext ==
    \/ CreateNode
    \/ RegisterNode
    \/ UnregisterNode
    \/ Heartbeat
    \/ LivenessTick
    \/ ElapseTime
    \/ ClaimManagerRole
    \/ AddMeasurement
    \/ UpdateMeasurementStatus
    \/ RemoveMeasurement

\* setup_liveness_timer arms an interval timer, so the tick runs again and
\* again, and the clock of the subnet keeps moving; nothing obliges a guest to
\* send a heartbeat
LiveSpec ==
    /\ Init
    /\ [][LiveNext]_vars
    /\ WF_vars(ElapseTime)
    /\ WF_vars(LivenessTick)

(* ------------------- the governance calls on their own ------------------ *)

\* the callers of the governance methods: any principal may call them
GovPrincipals == {Admin, OwnerP, NodeP1, Anonymous}

\* the measurement strings of two images, and one that is no hex
GovHexInputs ==
    MeasurementHexInputs \cup {hex_encode(Meas2)}

GovClaimManagerRole ==
    /\ \E caller \in GovPrincipals :
          /\ managers' = claim_manager_role(caller).managers
    /\ UNCHANGED <<nodes, index, requirements, next_node_id, now>>
    /\ UNCHANGED outside_registry

GovAddManager ==
    /\ \E caller \in GovPrincipals, p \in GovPrincipals :
          /\ managers' = add_manager(caller, p).managers
    /\ UNCHANGED <<nodes, index, requirements, next_node_id, now>>
    /\ UNCHANGED outside_registry

GovRemoveManager ==
    /\ \E caller \in GovPrincipals, p \in GovPrincipals :
          /\ managers' = remove_manager(caller, p).managers
    /\ UNCHANGED <<nodes, index, requirements, next_node_id, now>>
    /\ UNCHANGED outside_registry

GovAddMeasurement ==
    /\ \E caller \in GovPrincipals, h \in GovHexInputs :
          /\ requirements' = add_measurement(caller, h).requirements
    /\ UNCHANGED <<nodes, index, next_node_id, managers, now>>
    /\ UNCHANGED outside_registry

GovUpdateMeasurementStatus ==
    /\ \E caller \in GovPrincipals, h \in GovHexInputs, st \in MeasurementStatuses :
          /\ requirements' = update_measurement_status(caller, h, st).requirements
    /\ UNCHANGED <<nodes, index, next_node_id, managers, now>>
    /\ UNCHANGED outside_registry

GovRemoveMeasurement ==
    /\ \E caller \in GovPrincipals, h \in GovHexInputs :
          /\ requirements' = remove_measurement(caller, h).requirements
    /\ UNCHANGED <<nodes, index, next_node_id, managers, now>>
    /\ UNCHANGED outside_registry

GovUpdateAttestationPolicies ==
    /\ \E caller \in GovPrincipals, req \in PolicyRequests :
          /\ requirements' = update_attestation_policies(caller, req).requirements
    /\ UNCHANGED <<nodes, index, next_node_id, managers, now>>
    /\ UNCHANGED outside_registry

GovNext ==
    \/ GovClaimManagerRole
    \/ GovAddManager
    \/ GovRemoveManager
    \/ GovAddMeasurement
    \/ GovUpdateMeasurementStatus
    \/ GovRemoveMeasurement
    \/ GovUpdateAttestationPolicies

GovSpec == Init /\ [][GovNext]_vars

(* ------------------------------ claims --------------------------------- *)

Bound(n) == n \in DOMAIN nodes /\ nodes[n].lifecycle_status # "Inactive"

\* C1: the principal index contains the pair (p, n) if and only if node n has
\* lifecycle other than Inactive and node_principal = p.
C1_IndexMatchesNodes ==
    /\ \A p \in DOMAIN index :
          /\ Bound(index[p])
          /\ nodes[index[p]].node_principal = Some(p)
    /\ \A n \in DOMAIN nodes :
          Bound(n) =>
             /\ is_some(nodes[n].node_principal)
             /\ unwrap(nodes[n].node_principal) \in DOMAIN index
             /\ index[unwrap(nodes[n].node_principal)] = n

\* both nodes were registered, and one of them has been deactivated since
C1_Witness ==
    /\ DOMAIN nodes = 1..2
    /\ nodes[1].lifecycle_status = "Inactive"
    /\ nodes[2].lifecycle_status = "Draining"
    /\ DOMAIN index = {NodeP1}
    /\ index[NodeP1] = 2
    /\ now > 0

\* C2: any two distinct nodes whose lifecycle is not Inactive have different
\* node_principal values.
C2_NoSharedPrincipal ==
    \A n \in DOMAIN nodes, m \in DOMAIN nodes :
        (n # m /\ Bound(n) /\ Bound(m)) => nodes[n].node_principal # nodes[m].node_principal

\* two nodes are bound at once, to the two principals
C2_Witness ==
    /\ DOMAIN nodes = 1..2
    /\ Bound(1) /\ Bound(2)
    /\ nodes[1].node_principal = Some(NodeP2)
    /\ nodes[2].node_principal = Some(NodeP1)

DifferentController ==
    Err("Other", <<"Node is currently active with a different controller.">>)

\* the target node and the index entry of its principal are as before the call
TargetUntouched(o, n) ==
    /\ o.nodes[n] = nodes[n]
    /\ \A q \in DOMAIN index : index[q] = n => (q \in DOMAIN o.index /\ o.index[q] = n)

\* C3: register_node succeeds only when the target node is Inactive, or is
\* Active and already bound to the caller; a Draining target is rejected,
\* whoever it is bound to.
C3_OnlyInactiveOrOwnActive ==
    \A p \in NodeCallers, n \in TargetIds :
        \A req \in RegisterCalls(p, n) :
            register_node(p, req).result.ok =>
                /\ n \in DOMAIN nodes
                /\ \/ nodes[n].lifecycle_status = "Inactive"
                   \/ /\ nodes[n].lifecycle_status = "Active"
                      /\ nodes[n].node_principal = Some(p)

\* the checks of register_node that come before the check of the target
EarlierChecksPass(p, req) ==
    /\ p # Anonymous
    /\ trim(req.public_key) # << >>
    /\ requirements.measurements # << >>
    /\ req.timestamp - now <= requirements.max_attestation_age_ns
    /\ now - req.timestamp <= requirements.max_attestation_age_ns

ActiveUnderAnother(p, n) ==
    /\ n \in DOMAIN nodes
    /\ nodes[n].lifecycle_status = "Active"
    /\ nodes[n].node_principal # Some(p)

\* C4 as claimed: register_node for an Active node by a principal other than
\* the bound one is rejected with "Node is currently active with a different
\* controller", and the node's lifecycle, node_principal and index entry are
\* unchanged.
C4_AlwaysDifferentController ==
    \A p \in NodeCallers, n \in TargetIds :
        \A req \in RegisterCalls(p, n) :
            ActiveUnderAnother(p, n) =>
                /\ register_node(p, req).result = DifferentController
                /\ TargetUntouched(register_node(p, req), n)

\* C4 as amended: such a call is always rejected and leaves the node, its
\* principal and its index entry unchanged; the error is "Node is currently
\* active with a different controller" when the checks that come first
\* (anonymous caller, empty public key, empty allow-list, replay window) pass.
C4_RejectedUntouched ==
    \A p \in NodeCallers, n \in TargetIds :
        \A req \in RegisterCalls(p, n) :
            ActiveUnderAnother(p, n) =>
                /\ ~register_node(p, req).result.ok
                /\ TargetUntouched(register_node(p, req), n)
                /\ EarlierChecksPass(p, req) =>
                      register_node(p, req).result = DifferentController

\* node 1 is Active under NodeP1, and NodeP2's valid evidence for it is
\* rejected with that error
C4_Witness ==
    /\ ActiveUnderAnother(NodeP2, 1)
    /\ nodes[1].node_principal = Some(NodeP1)
    /\ requirements.measurements # << >>
    /\ requirements.measurements[1].status = "Active"
    /\ register_node(NodeP2, HonestReq(1, NodeP2, now, Meas1, ChipA, "Milan")).result
          = DifferentController

\* the allow-list holds these bytes with status Active
AllowedActive(measurement) ==
    \E i \in 1..Len(requirements.measurements) :
        /\ hex_decode(requirements.measurements[i].measurement_hex).bytes = measurement
        /\ requirements.measurements[i].status = "Active"

\* C5: register_node succeeds only if the measurement in the report is in the
\* allow-list with status Active; a report whose measurement is absent,
\* Deprecated or Revoked never makes a node Active.
C5_NeedsActiveMeasurement ==
    \A p \in NodeCallers, n \in TargetIds :
        \A req \in RegisterCalls(p, n) :
            LET o == register_node(p, req)
            IN  /\ o.result.ok => AllowedActive(req.attestation_report.value.measurement)
                /\ (/\ n \in DOMAIN nodes
                    /\ req.attestation_report.parses
                    /\ ~AllowedActive(req.attestation_report.value.measurement))
                   => o.nodes[n] = nodes[n]

\* an Inactive node, a Deprecated measurement: evidence that is otherwise
\* valid is rejected for the measurement alone
C5_Witness ==
    /\ 1 \in DOMAIN nodes
    /\ nodes[1].lifecycle_status = "Inactive"
    /\ requirements.measurements # << >>
    /\ requirements.measurements[1].status = "Deprecated"
    /\ LET o == register_node(NodeP1, HonestReq(1, NodeP1, now, Meas1, ChipA, "Milan"))
       IN  /\ ~o.result.ok
           /\ o.result.msg = <<"Measurement is not Active">>

\* C6: register_node succeeds only if the chip id in the report equals the
\* decoded expected_chip_id of the target node; a chip id that differs in a
\* single bit is rejected and the node is not activated.
C6_NeedsChipId ==
    \A p \in NodeCallers, n \in TargetIds :
        \A req \in RegisterCalls(p, n) :
            LET o == register_node(p, req)
            IN  /\ o.result.ok =>
                      req.attestation_report.value.chip_id
                          = hex_decode(nodes[n].expected_chip_id).bytes
                /\ (/\ n \in DOMAIN nodes
                    /\ req.attestation_report.parses
                    /\ req.attestation_report.value.chip_id = ChipA1)
                   => (~o.result.ok /\ o.nodes[n] = nodes[n])

\* an Inactive node expecting ChipA: the evidence is accepted with ChipA and
\* rejected for the chip id with ChipA1, one bit away
C6_Witness ==
    /\ 1 \in DOMAIN nodes
    /\ nodes[1].lifecycle_status = "Inactive"
    /\ hex_decode(nodes[1].expected_chip_id).bytes = ChipA
    /\ register_node(NodeP1, HonestReq(1, NodeP1, now, Meas1, ChipA, "Milan")).result.ok
    /\ register_node(NodeP1, HonestReq(1, NodeP1, now, Meas1, ChipA1, "Milan")).result
          = Err("InvalidInput",
                <<"Chip ID mismatch between configuration and attestation report.">>)

\* C7: register_node succeeds only if the report_data of the report is
\* SHA-256(caller principal bytes, then the request timestamp as 8
\* little-endian bytes) followed by 32 zero bytes; evidence produced for
\* another principal or another timestamp is rejected.
C7_NeedsNonce ==
    \A p \in NodeCallers, n \in TargetIds :
        \A req \in RegisterCalls(p, n) :
            LET o == register_node(p, req)
                report == req.attestation_report.value
                for(q, t) == [head |-> [alg |-> "sha256", preimage |-> q \o le_bytes(t, 8)],
                              tail |-> Bytes(32, 0)]
            IN  /\ o.result.ok => report.report_data = for(p, req.timestamp)
                /\ (/\ n \in DOMAIN nodes
                    /\ req.attestation_report.parses
                    /\ \/ report.report_data = for(OtherPrincipal(p), req.timestamp)
                       \/ report.report_data = for(p, req.timestamp + 1))
                   => (~o.result.ok /\ o.nodes[n] = nodes[n])

NonceMismatch ==
    Err("InvalidInput", <<"Report Data mismatch. Replay attack or invalid nonce.">>)

\* an Inactive node and an Active measurement: NodeP1's evidence is accepted
\* from NodeP1, and rejected for the nonce from NodeP2 and under another
\* timestamp
C7_Witness ==
    /\ 1 \in DOMAIN nodes
    /\ nodes[1].lifecycle_status = "Inactive"
    /\ LET good == HonestReq(1, NodeP1, now, Meas1, ChipA, "Milan")
           other == HonestReq(1, NodeP1, now + 1, Meas1, ChipA, "Milan")
       IN  /\ register_node(NodeP1, good).result.ok
           /\ register_node(NodeP2, good).result = NonceMismatch
           /\ register_node(NodeP1, [good EXCEPT !.attestation_report =
                                         other.attestation_report]).result = NonceMismatch

TimestampRejected ==
    Err("InvalidInput", <<"Attestation timestamp too old or in future.">>)

\* the checks of register_node that come before the replay window
ReachesReplayCheck(p, req) ==
    /\ p # Anonymous
    /\ trim(req.public_key) # << >>
    /\ requirements.measurements # << >>

\* C8: the replay check accepts a timestamp whose distance from the current
\* time is exactly max_attestation_age_ns and rejects one that is one unit
\* further away, in the past as in the future.
C8_ReplayWindowBoundary ==
    \A p \in NodeCallers, n \in TargetIds :
        \A req \in RegisterCalls(p, n) :
            LET age == requirements.max_attestation_age_ns
                distance == IF req.timestamp >= now THEN req.timestamp - now
                            ELSE now - req.timestamp
            IN  ReachesReplayCheck(p, req) =>
                   /\ distance <= age => register_node(p, req).result # TimestampRejected
                   /\ distance = age + 1 => register_node(p, req).result = TimestampRejected

\* at a time later than the window is wide: evidence aged exactly the window
\* registers an Inactive node, from the past and from the future, and one
\* unit more is rejected on both sides
C8_Witness ==
    /\ now > requirements.max_attestation_age_ns
    /\ 1 \in DOMAIN nodes
    /\ nodes[1].lifecycle_status = "Inactive"
    /\ LET age == requirements.max_attestation_age_ns
           at(t) == register_node(NodeP1, HonestReq(1, NodeP1, t, Meas1, ChipA, "Milan")).result
       IN  /\ at(now - age).ok
           /\ at(now + age).ok
           /\ at(now - age - 1) = TimestampRejected
           /\ at(now + age + 1) = TimestampRejected

\* C9: register_node succeeds only if the certificate chain of the request is
\* anchored in one of the built-in roots; a chain under a self-signed root that
\* is not built in is rejected, however well it verifies.
C9_NeedsBuiltinRoot ==
    \A p \in NodeCallers, n \in TargetIds :
        \A req \in RegisterCalls(p, n) :
            register_node(p, req).result.ok => req.ark_der.value \in BuiltinRoots

\* the reported measurement of node n has no entry in the allow-list, or an
\* entry with status Revoked
RevokedOrAbsent(n) ==
    /\ is_some(nodes[n].reported_measurement)
    /\ LET entries == {i \in 1..Len(requirements.measurements) :
                          hex_decode(requirements.measurements[i].measurement_hex).bytes
                              = unwrap(nodes[n].reported_measurement)}
       IN  \/ entries = {}
           \/ \A i \in entries : requirements.measurements[i].status = "Revoked"

\* C10: a heartbeat of a node whose measurement is Revoked, or absent from the
\* allow-list, returns Abort, and in that same call the node becomes Inactive,
\* all its session fields are cleared and the caller leaves the index.
C10_RevokedHeartbeatAborts ==
    \A p \in NodeCallers :
        (/\ p \in DOMAIN index
         /\ index[p] \in DOMAIN nodes
         /\ nodes[index[p]].node_principal = Some(p)
         /\ RevokedOrAbsent(index[p]))
        => LET o == heartbeat(p)
               after == o.nodes[index[p]]
           IN  /\ o.result = Ok(<<"Abort">>)
               /\ after.lifecycle_status = "Inactive"
               /\ after.node_principal = None
               /\ after.public_key = None
               /\ after.authenticated_measurement = None
               /\ after.attestation_verified_at = None
               /\ after.last_heartbeat_timestamp = None
               /\ after.reported_measurement = None
               /\ after.reported_chip_id = None
               /\ after.reported_tcb = None
               /\ after.reported_platform_info = None
               /\ after.detected_generation = None
               /\ p \notin DOMAIN o.index

\* NodeP1 holds node 1, whose measurement is now Revoked: its heartbeat is
\* answered with Abort
C10_Witness ==
    /\ NodeP1 \in DOMAIN index
    /\ index[NodeP1] = 1
    /\ nodes[1].lifecycle_status = "Active"
    /\ requirements.measurements # << >>
    /\ requirements.measurements[1].status = "Revoked"
    /\ RevokedOrAbsent(1)
    /\ heartbeat(NodeP1).result = Ok(<<"Abort">>)
    /\ NodeP1 \notin DOMAIN heartbeat(NodeP1).index

\* the statuses the allow-list gives the measurement node n reported
ReportedStatuses(n) ==
    IF is_some(nodes[n].reported_measurement)
    THEN {requirements.measurements[i].status :
             i \in {j \in 1..Len(requirements.measurements) :
                       hex_decode(requirements.measurements[j].measurement_hex).bytes
                           = unwrap(nodes[n].reported_measurement)}}
    ELSE {}

\* p holds a session: the index names a node that is bound to p
HoldsSession(p) ==
    /\ p \in DOMAIN index
    /\ index[p] \in DOMAIN nodes
    /\ nodes[index[p]].node_principal = Some(p)

\* C11: a heartbeat of a node whose measurement has status Deprecated returns
\* DrainAndShutdown and leaves the node Draining, still bound to the caller
\* and still in the principal index.
C11_DeprecatedHeartbeatDrains ==
    \A p \in NodeCallers :
        (HoldsSession(p) /\ ReportedStatuses(index[p]) = {"Deprecated"})
        => LET o == heartbeat(p)
           IN  /\ o.result = Ok(<<"DrainAndShutdown">>)
               /\ o.nodes[index[p]].lifecycle_status = "Draining"
               /\ o.nodes[index[p]].node_principal = Some(p)
               /\ p \in DOMAIN o.index
               /\ o.index[p] = index[p]

\* NodeP1 holds node 1, Active, and its measurement is now Deprecated: the
\* heartbeat answers DrainAndShutdown and the node is Draining afterwards
C11_Witness ==
    /\ HoldsSession(NodeP1)
    /\ index[NodeP1] = 1
    /\ nodes[1].lifecycle_status = "Active"
    /\ ReportedStatuses(1) = {"Deprecated"}
    /\ heartbeat(NodeP1).result = Ok(<<"DrainAndShutdown">>)
    /\ heartbeat(NodeP1).nodes[1].lifecycle_status = "Draining"

\* C12: a heartbeat of a node whose measurement has status Active returns
\* Continue, sets last_heartbeat to the current time and leaves the node
\* Active; a node that was Draining is Active again.
C12_ActiveHeartbeatContinues ==
    \A p \in NodeCallers :
        (HoldsSession(p) /\ ReportedStatuses(index[p]) = {"Active"})
        => LET o == heartbeat(p)
           IN  /\ o.result = Ok(<<"Continue">>)
               /\ o.nodes[index[p]].lifecycle_status = "Active"
               /\ o.nodes[index[p]].last_heartbeat_timestamp = Some(now)
               /\ o.nodes[index[p]].node_principal = Some(p)
               /\ p \in DOMAIN o.index
               /\ o.index[p] = index[p]

\* NodeP1 holds node 1, Draining since an earlier time, and its measurement is
\* Active again: the heartbeat answers Continue, the node is Active and its
\* last heartbeat is now
C12_Witness ==
    /\ HoldsSession(NodeP1)
    /\ index[NodeP1] = 1
    /\ nodes[1].lifecycle_status = "Draining"
    /\ nodes[1].last_heartbeat_timestamp # Some(now)
    /\ ReportedStatuses(1) = {"Active"}
    /\ heartbeat(NodeP1).result = Ok(<<"Continue">>)
    /\ heartbeat(NodeP1).nodes[1].lifecycle_status = "Active"
    /\ heartbeat(NodeP1).nodes[1].last_heartbeat_timestamp = Some(now)

\* every session field of the node is empty
FullyScrubbed(node) ==
    /\ node.node_principal = None
    /\ node.public_key = None
    /\ node.authenticated_measurement = None
    /\ node.reported_measurement = None
    /\ node.reported_tcb = None
    /\ node.reported_chip_id = None
    /\ node.reported_platform_info = None
    /\ node.detected_generation = None
    /\ node.attestation_verified_at = None
    /\ node.last_heartbeat_timestamp = None

\* C13: every node whose lifecycle is Inactive is fully scrubbed, whichever
\* way it became Inactive.
C13_InactiveIsScrubbed ==
    \A n \in DOMAIN nodes :
        nodes[n].lifecycle_status = "Inactive" => FullyScrubbed(nodes[n])

\* node 2 is Inactive since its creation; node 1 is Active under NodeP1,
\* its measurement Revoked and its last heartbeat older than the timeout:
\* unregister, the Abort heartbeat and the liveness tick each leave it
\* Inactive and scrubbed
C13_Witness ==
    /\ DOMAIN nodes = 1..2
    /\ nodes[2].lifecycle_status = "Inactive"
    /\ FullyScrubbed(nodes[2])
    /\ HoldsSession(NodeP1)
    /\ index[NodeP1] = 1
    /\ nodes[1].lifecycle_status = "Active"
    /\ ReportedStatuses(1) = {"Revoked"}
    /\ now - unwrap(nodes[1].last_heartbeat_timestamp) > LIVENESS_TIMEOUT
    /\ \A after \in {unregister_node(NodeP1).nodes[1], heartbeat(NodeP1).nodes[1],
                     check_node_liveness_tick.nodes[1]} :
          after.lifecycle_status = "Inactive" /\ FullyScrubbed(after)

\* the last heartbeat of a node that is not Inactive is missing or older
\* than the timeout
Stale(n) ==
    /\ nodes[n].lifecycle_status # "Inactive"
    /\ \/ nodes[n].last_heartbeat_timestamp = None
       \/ now - nodes[n].last_heartbeat_timestamp[1] > LIVENESS_TIMEOUT

\* C14: a liveness tick evicts every node that is not Inactive and whose last
\* heartbeat is missing or older than the timeout (made Inactive, scrubbed,
\* out of the principal index), and touches no other node.
C14_TickEvictsStaleOnly ==
    LET o == check_node_liveness_tick
    IN  /\ DOMAIN o.nodes = DOMAIN nodes
        /\ \A n \in DOMAIN nodes :
              IF Stale(n)
              THEN /\ o.nodes[n].lifecycle_status = "Inactive"
                   /\ FullyScrubbed(o.nodes[n])
                   /\ \A p \in DOMAIN o.index : o.index[p] # n
              ELSE /\ o.nodes[n] = nodes[n]
                   /\ \A p \in DOMAIN index :
                         index[p] = n => (p \in DOMAIN o.index /\ o.index[p] = n)

\* at a time one unit past the timeout, node 1 was last heard at time 0 and
\* node 2 just now: the tick evicts node 1 and leaves node 2 as it is
C14_Witness ==
    /\ now = LIVENESS_TIMEOUT + 1
    /\ DOMAIN nodes = 1..2
    /\ nodes[1].lifecycle_status = "Active"
    /\ nodes[1].last_heartbeat_timestamp = Some(0)
    /\ nodes[2].lifecycle_status = "Active"
    /\ nodes[2].last_heartbeat_timestamp = Some(now)
    /\ check_node_liveness_tick.nodes[1].lifecycle_status = "Inactive"
    /\ check_node_liveness_tick.nodes[2] = nodes[2]
    /\ DOMAIN check_node_liveness_tick.index = {unwrap(nodes[2].node_principal)}

\* node n holds a session under a measurement whose status is Revoked
RevokedInUse(n) ==
    /\ n \in DOMAIN nodes
    /\ nodes[n].lifecycle_status # "Inactive"
    /\ ReportedStatuses(n) = {"Revoked"}

\* node n is Inactive and no principal of the index names it
Gone(n) ==
    /\ n \in DOMAIN nodes
    /\ nodes[n].lifecycle_status = "Inactive"
    /\ \A p \in DOMAIN index : index[p] # n

\* the measurement node n reported is Active or Deprecated in the allow-list
RevocationLifted(n) ==
    /\ n \in DOMAIN nodes
    /\ ReportedStatuses(n) \cap {"Active", "Deprecated"} # {}

\* C15 as claimed: once a measurement is Revoked, every node registered with
\* it eventually becomes Inactive and leaves the principal index.
C15_RevokedEventuallyGone ==
    \A n \in 1..MaxNodes : RevokedInUse(n) ~> Gone(n)

\* C15 as amended: a node registered with a Revoked measurement becomes
\* Inactive and leaves the principal index, by its next heartbeat or by the
\* liveness timer, unless a manager sets the measurement back to Active or
\* Deprecated before that.
C15_RevokedGoneUnlessLifted ==
    \A n \in 1..MaxNodes : RevokedInUse(n) ~> (Gone(n) \/ RevocationLifted(n))

\* node 1 is Active under NodeP1 with a Revoked measurement and was last
\* heard longer ago than the timeout: the heartbeat and the liveness tick
\* each make it Inactive and take NodeP1 out of the index
C15_Witness ==
    /\ RevokedInUse(1)
    /\ HoldsSession(NodeP1)
    /\ index[NodeP1] = 1
    /\ Stale(1)
    /\ heartbeat(NodeP1).nodes[1].lifecycle_status = "Inactive"
    /\ NodeP1 \notin DOMAIN heartbeat(NodeP1).index
    /\ check_node_liveness_tick.nodes[1].lifecycle_status = "Inactive"
    /\ NodeP1 \notin DOMAIN check_node_liveness_tick.index

\* C16: a call that changes the measurement list (remove_measurement,
\* update_measurement_status) changes nothing else: no node record, no entry
\* of the principal index and no other field of the requirements; a node whose
\* measurement has left the list keeps its session, and its next heartbeat
\* returns Abort.
C16_MeasurementChangeFrame ==
    [][requirements'.measurements # requirements.measurements =>
          /\ nodes' = nodes
          /\ index' = index
          /\ [requirements' EXCEPT !.measurements = requirements.measurements]
                = requirements
          /\ \A p \in NodeCallers :
                (HoldsSession(p) /\ ReportedStatuses(index[p])' = {})
                => (heartbeat(p).result)' = Ok(<<"Abort">>)]_vars

\* node 1 is Active under NodeP1 with an Active measurement and Admin is a
\* manager: Admin's removal of that measurement succeeds, and the decision of
\* the next heartbeat over the list it leaves is Abort
C16_Witness ==
    /\ HoldsSession(NodeP1)
    /\ index[NodeP1] = 1
    /\ nodes[1].lifecycle_status = "Active"
    /\ ReportedStatuses(1) = {"Active"}
    /\ Admin \in managers
    /\ \E h \in MeasurementHexInputs :
          /\ remove_measurement(Admin, h).result.ok
          /\ remove_measurement(Admin, h).requirements.measurements = << >>
          /\ heartbeat_decision(nodes[1], remove_measurement(Admin, h).requirements.measurements)
                = [new_status |-> "Inactive", command |-> "Abort"]
          /\ update_measurement_status(Admin, h, "Revoked").result.ok

\* C17: get_node_config returns the configuration of a node, the encrypted
\* API key included, only when the caller is the principal the node is bound
\* to and the node is not Inactive; every other caller, and every call for an
\* Inactive node, gets an error.
C17_ConfigOnlyForBoundPrincipal ==
    \A p \in NodeCallers, n \in TargetIds :
        LET r == get_node_config(p, n)
            entitled == /\ n \in DOMAIN nodes
                        /\ nodes[n].lifecycle_status # "Inactive"
                        /\ nodes[n].node_principal = Some(p)
        IN  /\ r.ok <=> entitled
            /\ r.ok => r.msg = <<[hostname |-> nodes[n].hostname,
                                  model_id |-> nodes[n].model_id,
                                  encrypted_api_key |-> nodes[n].encrypted_api_key]>>
            /\ ~r.ok => r \in {Unauthorized, NodeNotFound}

\* node 1 is Draining under NodeP1 and node 2 is Inactive: NodeP1 gets the
\* configuration of node 1; NodeP2 and the anonymous caller do not, and nobody
\* gets the configuration of node 2
C17_Witness ==
    /\ DOMAIN nodes = 1..2
    /\ nodes[1].lifecycle_status = "Draining"
    /\ nodes[1].node_principal = Some(NodeP1)
    /\ nodes[2].lifecycle_status = "Inactive"
    /\ get_node_config(NodeP1, 1).ok
    /\ get_node_config(NodeP1, 1).msg[1].encrypted_api_key = nodes[1].encrypted_api_key
    /\ get_node_config(NodeP2, 1) = Unauthorized
    /\ get_node_config(Anonymous, 1) = Unauthorized
    /\ get_node_config(NodeP1, 2) = Unauthorized

\* C18: claim_manager_role succeeds only while the manager set is empty, and
\* inserts the caller in that same step; a manager set that is not empty never
\* becomes empty again, so over any sequence of claim_manager_role,
\* add_manager and remove_manager calls the claim succeeds at most once.
C18_ClaimOnlyOnce ==
    /\ [](\A caller \in GovPrincipals :
             /\ claim_manager_role(caller).result.ok <=> managers = {}
             /\ claim_manager_role(caller).result.ok
                   => claim_manager_role(caller).managers = {caller}
             /\ ~claim_manager_role(caller).result.ok
                   => claim_manager_role(caller).managers = managers)
    /\ [][managers # {} => managers' # {}]_vars

\* two managers, Admin being one: Admin can remove the other or itself, one
\* manager being left either way, and nobody can claim the role
C18_Witness ==
    /\ managers = {Admin, NodeP1}
    /\ remove_manager(Admin, NodeP1).managers = {Admin}
    /\ remove_manager(Admin, Admin).managers = {NodeP1}
    /\ \A caller \in GovPrincipals : ~claim_manager_role(caller).result.ok
    /\ claim_manager_role(OwnerP).result = Err("RoleAlreadyClaimed", << >>)

\* C19: add_measurement, update_measurement_status, remove_measurement and
\* update_attestation_policies take effect only when the caller is in the
\* manager set; called by anyone else they return Unauthorized and leave the
\* attestation policy and the measurement list unchanged.
C19_ManagerGated ==
    \A caller \in GovPrincipals :
        LET outcomes ==
                {add_measurement(caller, h) : h \in GovHexInputs}
                \cup {update_measurement_status(caller, h, st) :
                         h \in GovHexInputs, st \in MeasurementStatuses}
                \cup {remove_measurement(caller, h) : h \in GovHexInputs}
                \cup {update_attestation_policies(caller, req) : req \in PolicyRequests}
        IN  \A o \in outcomes :
                /\ caller \notin managers
                      => (o.result = Unauthorized /\ o.requirements = requirements)
                /\ o.requirements # requirements => caller \in managers
                /\ o.result.ok => caller \in managers

\* Admin is the only manager and the allow-list holds one Active measurement:
\* each of the four calls changes the requirements when Admin makes it and
\* answers Unauthorized when NodeP1 makes it
C19_Witness ==
    /\ managers = {Admin}
    /\ Len(requirements.measurements) = 1
    /\ requirements.measurements[1] = Measurement(hex_encode(Meas1), "Active")
    /\ requirements.max_attestation_age_ns = DefaultPolicy.max_attestation_age_ns
    /\ LET h1 == hex_encode(Meas1)
           h2 == hex_encode(Meas2)
       IN  /\ add_measurement(Admin, h2).requirements # requirements
           /\ update_measurement_status(Admin, h1, "Revoked").requirements # requirements
           /\ remove_measurement(Admin, h1).requirements # requirements
           /\ update_attestation_policies(Admin, RelaxedPolicy).requirements # requirements
           /\ add_measurement(NodeP1, h2).result = Unauthorized
           /\ update_measurement_status(NodeP1, h1, "Revoked").result = Unauthorized
           /\ remove_measurement(NodeP1, h1).result = Unauthorized
           /\ update_attestation_policies(NodeP1, RelaxedPolicy).result = Unauthorized

\* the keys of the routing table that lead to node n: its decimal id, its
\* hostname and the first label of its hostname
KeysOf(n) ==
    {to_string(n), nodes[n].hostname, extract_subdomain(nodes[n].hostname)}

\* C20: after a routing refresh, the routing table of the host has no key
\* (hostname, first label or node id) of a node whose lifecycle in the
\* registry is Inactive.
C20_NoRouteToInactive ==
    [][table' # table =>
          \A n \in DOMAIN nodes' :
              nodes'[n].lifecycle_status = "Inactive"
              => \A key \in KeysOf(n)' : key \notin DOMAIN table']_vars

\* C21: the routing table changes only by the watcher's assignment under the
\* write lock, which replaces it as a whole by the table the watcher built; a
\* lookup reads under the read lock, never together with the writer, and gets
\* the port the table it reads has for its host, so it sees the table from
\* before or from after the swap and never a mixture of the two.
C21_SwapIsAtomic ==
    /\ [](~(lock.writer /\ lock.readers # {}))
    /\ [][/\ table' # table
              => /\ lock.writer /\ lock.readers = {}
                 /\ table' = watcher.new_table
           /\ \A r \in 1..MaxRequests :
                 (proxy[r].pc = "reading" /\ proxy'[r].pc = "looked_up")
                 => /\ r \in lock.readers /\ ~lock.writer
                    /\ table' = table
                    /\ proxy'[r].target_port = MapGet(table, proxy[r].host)]_vars

\* Request 1 looked up host "1" before a swap and holds the port of the table
\* from before it; request 2 looked up the same host after the swap and holds
\* the port of the table from after it, while the next table is already built.
C21_Witness ==
    /\ proxy[1].pc = "looked_up" /\ proxy[2].pc = "looked_up"
    /\ proxy[1].host = to_string(1) /\ proxy[2].host = to_string(1)
    /\ is_some(proxy[1].target_port)
    /\ proxy[1].target_port # proxy[2].target_port
    /\ proxy[2].target_port = MapGet(table, to_string(1))
    /\ watcher.pc = "built" /\ watcher.new_table # table

\* the guest has received DrainAndShutdown from its heartbeat
SawDrain == is_some(guest.since_drain)

\* connection c has not passed the gatekeeper
BeforeGate(c) == guest.connections[c].pc \in {"none", "upgraded"}

\* while the guest has seen DrainAndShutdown, no connection passes the
\* gatekeeper and only a connection that passed it earlier adds a stream
NoNewConnection ==
    [][SawDrain =>
          /\ \A c \in 1..MaxConnections : BeforeGate(c) => BeforeGate(c)'
          /\ \A k \in guest'.job_streams \ guest.job_streams :
                 \E c \in 1..MaxConnections : guest.connections[c].pc = "handshake"]_vars

\* C22, as stated: once the heartbeat of the guest receives DrainAndShutdown no
\* connection that arrives afterwards is accepted, and the process has
\* terminated when more than 120 s have passed since that moment.
C22_ExitWithinGraceOfDrain ==
    /\ NoNewConnection
    /\ [](SawDrain /\ unwrap(guest.since_drain) > MAX_WAIT => guest.main = "exited")

\* C22, amended: once the heartbeat of the guest receives DrainAndShutdown no
\* connection that arrives afterwards is accepted; the flag monitor stops the
\* server within its poll interval, the wait for the job streams ends at
\* its first poll that finds no stream or finds 120 s passed since the wait
\* began, and only then does the process unregister and exit.
C22_DrainThenBoundedWait ==
    /\ NoNewConnection
    /\ [](SawDrain /\ unwrap(guest.since_drain) > FLAG_POLL_INTERVAL
             => guest.main # "serving")
    /\ [](guest.main = "waiting"
             => /\ guest.wait.elapsed <= MAX_WAIT
                /\ guest.wait.elapsed = MAX_WAIT => guest.wait.sleep = 0)
    /\ [][guest.main = "waiting" /\ guest'.main # "waiting"
             => /\ guest'.main = "unregistering" \/ guest'.exit_code = Some(1)
                /\ guest'.main = "unregistering"
                   => guest.job_streams = {} \/ guest.wait.elapsed >= MAX_WAIT]_vars

\* The guest saw DrainAndShutdown with a stream in flight, a connection that
\* came later was turned away, the stream never finished, the wait ran its
\* 120 s and the process is still unregistering 122 s after the command.
C22_Witness ==
    /\ SawDrain /\ unwrap(guest.since_drain) = MAX_WAIT + POLL_INTERVAL
    /\ guest.main = "unregistering"
    /\ guest.job_streams # {}
    /\ guest.wait.elapsed = MAX_WAIT
    /\ \E c \in 1..MaxConnections : guest.connections[c].pc = "upgraded"

\* C23: unregister_node called by the principal bound to an Active or Draining
\* node leaves that node Inactive and scrubbed and the index without the
\* caller, with every other node and every other index entry as before; a
\* caller that is not in the index gets an error and nodes and index stay as
\* they are; a step of unregister_node leaves the allow-list and the managers
\* as they are.
C23_UnregisterFrame ==
    /\ [](\A p \in NodeCallers :
            LET o == unregister_node(p)
            IN  IF p \in DOMAIN index
                THEN /\ o.result.ok
                     /\ o.nodes[index[p]].lifecycle_status = "Inactive"
                     /\ FullyScrubbed(o.nodes[index[p]])
                     /\ DOMAIN o.nodes = DOMAIN nodes
                     /\ \A n \in DOMAIN nodes \ {index[p]} : o.nodes[n] = nodes[n]
                     /\ DOMAIN o.index = DOMAIN index \ {p}
                     /\ \A q \in DOMAIN o.index : o.index[q] = index[q]
                ELSE /\ ~o.result.ok
                     /\ o.nodes = nodes
                     /\ o.index = index)
    /\ [][(\E p \in DOMAIN index :
              nodes' = unregister_node(p).nodes /\ index' = unregister_node(p).index)
             => requirements' = requirements /\ managers' = managers]_vars

\* NodeP1 is bound to node 1, which is Draining, and NodeP2 holds no node:
\* NodeP1's call leaves node 1 Inactive and scrubbed, node 2 and the
\* allow-list as they are; NodeP2's call is an error.
C23_Witness ==
    /\ HoldsSession(NodeP1) /\ index[NodeP1] = 1
    /\ nodes[1].lifecycle_status = "Draining"
    /\ 2 \in DOMAIN nodes
    /\ NodeP2 \notin DOMAIN index
    /\ requirements.measurements # << >>
    /\ unregister_node(NodeP1).result.ok
    /\ unregister_node(NodeP1).nodes[1].lifecycle_status = "Inactive"
    /\ unregister_node(NodeP1).nodes[2] = nodes[2]
    /\ unregister_node(NodeP1).index = EmptyMap
    /\ unregister_node(NodeP2).result = NodeNotFound

\* the request passes every check of register_node that looks at the request,
\* the allow-list, the clock and the expected chip id of the target
ValidEvidence(p, req) ==
    LET report == req.attestation_report.value
        evidence == verify_attestation_evidence(
                        report, req.ark_der.value, req.ask_der.value, req.vek_der.value,
                        requirements, expected_report_data(p, req.timestamp))
    IN  /\ trim(req.public_key) # << >>
        /\ requirements.measurements # << >>
        /\ replay_window_ok(now, req.timestamp, requirements.max_attestation_age_ns)
        /\ req.ark_der.parses /\ req.ask_der.parses /\ req.vek_der.parses
        /\ req.attestation_report.parses
        /\ evidence.ok
        /\ registry_status(requirements.measurements, hex_encode(report.measurement)).ok
        /\ hex_decode(nodes[req.node_id].expected_chip_id).ok
        /\ chip_id_matches(report.chip_id,
                           hex_decode(nodes[req.node_id].expected_chip_id).bytes)

RecordedPort(dir, node_id) == unwrap(dir)[node_id].port

\* C25: add_service called without a port for a node whose unit file exists
\* writes a unit with the port the unit recorded before, whether or not
\* that port binds (the VM of the node may be running on it).
C25_AddServiceKeepsPort ==
    \A node_id \in DOMAIN unwrap(units), bound \in BoundPorts :
        LET o == add_service(units, node_id, None, bound)
        IN  /\ o.result.ok
            /\ RecordedPort(o.dir, node_id) = RecordedPort(units, node_id)

\* C26: add_service called without a port gives the node the lowest port of
\* [8000, 9000) that no unit file of another node records and that binds, so
\* the new unit never records the port of another node's unit.
C26_AssignedPortsDistinct ==
    \A node_id \in UnitIds, bound \in BoundPorts :
        LET o == add_service(units, node_id, None, bound)
        IN  o.result.ok =>
              \A other \in DOMAIN unwrap(o.dir) \ {node_id} :
                  RecordedPort(o.dir, other) # RecordedPort(o.dir, node_id)

\* C27: load_seed fails for every seed file whose length is not exactly 24
\* bytes, and no launch goes on with a seed read from such a file.
C27_SeedLengthEnforced ==
    /\ (seed_file # None /\ Len(unwrap(seed_file)) # SEED_LENGTH)
          => ~load_seed(seed_file).ok
    /\ \A node_id \in LaunchIds :
          launch_node_vm(PORT_RANGE_START, node_id, seed_file, TRUE).ok
          => Len(unwrap(seed_file)) = SEED_LENGTH

\* the launch of node_id with the seed file as it is, its assets in place
LaunchOf(node_id) == launch_node_vm(PORT_RANGE_START, node_id, seed_file, TRUE)

\* the seed load_seed reads from the seed file
LoadedSeed == unwrap(load_seed(seed_file).msg)

\* the guest gets back the node id and the seed the host built the block from
RoundTrip(node_id) ==
    LET parsed == guest_parse(unwrap(LaunchOf(node_id).msg))
    IN  /\ parsed.ok
        /\ unwrap(parsed.msg).node_id = node_id
        /\ unwrap(parsed.msg).seed = LoadedSeed
        /\ Slice(base64_decode(unwrap(LaunchOf(node_id).msg).host_data), 0, NODE_ID_LENGTH)
             = to_le_bytes(node_id)

\* the block the host builds for node_id has no byte other than 0
ZeroBlock(node_id) == node_id = 0 /\ LoadedSeed = Bytes(SEED_LENGTH, 0)

\* C28, as stated: for every node id and every seed, the guest's parsing of the
\* host_data block the host builds returns that node id, the first 8 bytes
\* read little-endian, and that seed; no pair is rejected.
C28_HostDataRoundTrip ==
    \A node_id \in LaunchIds : LaunchOf(node_id).ok => RoundTrip(node_id)

\* C28, amended: the guest's parsing of the block the host builds returns the
\* node id and the seed for every pair but node id 0 with the seed of 24 zero
\* bytes, whose block the guest rejects as "Host data is all zeros".
C28_RoundTripButZeroBlock ==
    \A node_id \in LaunchIds :
        LaunchOf(node_id).ok =>
            IF ZeroBlock(node_id)
            THEN guest_parse(unwrap(LaunchOf(node_id).msg))
                   = Err("Attestation", <<"Host data is all zeros">>)
            ELSE RoundTrip(node_id)

\* A VM was launched for node 65536 with the seed 1, 2, .., 24 and its guest
\* read node id and seed back; the seed file has since been replaced by 24
\* zero bytes, with which node 0 would get a block of zeros.
C28_Witness ==
    /\ launch # None /\ launch.ok
    /\ unwrap(launch.msg).name = 65536
    /\ identity # None /\ identity.ok
    /\ identity = guest_parse(unwrap(launch.msg))
    /\ unwrap(identity.msg).node_id = 65536
    /\ unwrap(identity.msg).seed = [i \in 1..SEED_LENGTH |-> i]
    /\ seed_file = Some(Bytes(SEED_LENGTH, 0))
    /\ LaunchOf(0).ok /\ ~guest_parse(unwrap(LaunchOf(0).msg)).ok
    /\ RoundTrip(1)

\* C29: for the seed the host loads, the host's and the guest's derivation give
\* the same 32 bytes: the digest of the same tag followed by the seed, with the
\* low 3 bits of byte 0 and bit 7 of byte 31 cleared and bit 6 of byte 31 set.
C29_SameKeyOnHostAndGuest ==
    /\ HostDomainTag = GuestDomainTag
    /\ \A seed \in (IF load_seed(seed_file).ok THEN {LoadedSeed} ELSE {}) :
          LET key == seed_to_x25519_key(seed)
              digest == sha256_finalize(HostDomainTag \o seed)
          IN  /\ guest_seed_to_x25519_key(seed) = key
              /\ Len(key) = 32
              /\ key[1] % 8 = 0 /\ key[1] \div 8 = digest[1] \div 8
              /\ Bit(key[32], 7) = 0 /\ Bit(key[32], 6) = 1
              /\ key[32] % 64 = digest[32] % 64
              /\ \A i \in 2..31 : key[i] = digest[i]
    /\ (identity # None /\ identity.ok)
          => unwrap(identity.msg).identity = seed_to_x25519_key(unwrap(identity.msg).seed)

\* A guest derived its identity from a seed whose digest has low bits in byte
\* 0 and bit 6 of byte 31 clear, so that the clamp changes both bytes, and
\* the host derives the same key from the seed file.
C29_Witness ==
    /\ identity # None /\ identity.ok
    /\ load_seed(seed_file).ok
    /\ unwrap(identity.msg).seed = LoadedSeed
    /\ unwrap(identity.msg).identity = seed_to_x25519_key(LoadedSeed)
    /\ LET digest == sha256_finalize(HostDomainTag \o LoadedSeed)
       IN  /\ digest[1] % 8 # 0
           /\ Bit(digest[32], 6) = 0

\* C30: the guest policy the host passes to the hypervisor at launch has the
\* AES-256-XTS bit (bit 22) set and the Migrate (bit 18) and Debug (bit 19)
\* bits cleared.
C30_PolicyBits ==
    (launch # None /\ launch.ok)
    => /\ Bit(unwrap(launch.msg).policy, 22) = 1
       /\ Bit(unwrap(launch.msg).policy, 18) = 0
       /\ Bit(unwrap(launch.msg).policy, 19) = 0

\* C31: a canister upgrade leaves the principal index as it was: the rebuilt
\* index holds (p, n) exactly for the nodes n with lifecycle other than
\* Inactive and node_principal = p, and every caller's heartbeat and
\* unregister get the same answer after the upgrade as before it.
C31_UpgradeKeepsIndex ==
    [][PostUpgrade =>
          /\ index' = index
          /\ \A p \in NodeCallers, n \in 1..MaxNodes :
                (p \in DOMAIN index' /\ index'[p] = n)
                   <=> (Bound(n) /\ nodes[n].node_principal = Some(p))
          /\ \A p \in NodeCallers :
                /\ heartbeat(p)'.result = heartbeat(p).result
                /\ unregister_node(p)'.result = unregister_node(p).result]_vars

\* Node 1 is Inactive, node 2 is Draining and bound to NodeP1, whose heartbeat
\* is authorised; the index an upgrade would rebuild is the one NodeP1 is in.
C31_Witness ==
    /\ DOMAIN nodes = 1..2
    /\ nodes[1].lifecycle_status = "Inactive"
    /\ nodes[2].lifecycle_status = "Draining"
    /\ nodes[2].node_principal = Some(NodeP1)
    /\ post_upgrade_handler = index
    /\ DOMAIN post_upgrade_handler = {NodeP1}
    /\ heartbeat(NodeP1).result.ok
    /\ unregister_node(NodeP1).result.ok
    /\ ~heartbeat(NodeP2).result.ok

\* C32: register_node called by a principal the index maps to another node
\* evicts that node as part of the call: after step 1, and after the call
\* whatever its result, the old node is Inactive with every session field
\* empty and the index no longer maps the principal to it; the new binding,
\* when the call commits one, is made on the registry without the old session.
C32_OldSessionEvicted ==
    \A p \in DOMAIN index :
        \A n \in TargetIds \ {index[p]} :
            \A req \in RegisterCalls(p, n) :
                LET old == index[p]
                    e == evict_old_session(nodes, index, p, n)
                    o == register_node(p, req)
                IN  /\ e.nodes[old].lifecycle_status = "Inactive"
                    /\ FullyScrubbed(e.nodes[old])
                    /\ p \notin DOMAIN e.index
                    /\ o.nodes[old].lifecycle_status = "Inactive"
                    /\ FullyScrubbed(o.nodes[old])
                    /\ MapGet(o.index, p) # Some(old)
                    /\ o.result.ok =>
                          /\ o.index = MapInsert(e.index, p, n)
                          /\ o.nodes[n].node_principal = Some(p)
                          /\ \A m \in DOMAIN nodes \ {n} : o.nodes[m] = e.nodes[m]

\* NodeP1 holds an Active session on node 1 and registers node 2, which is
\* Inactive, with valid evidence: the call is accepted, node 1 is left
\* Inactive and scrubbed, and NodeP1 is indexed to node 2.
C32_Witness ==
    /\ HoldsSession(NodeP1) /\ index[NodeP1] = 1
    /\ nodes[1].lifecycle_status = "Active"
    /\ 2 \in DOMAIN nodes /\ nodes[2].lifecycle_status = "Inactive"
    /\ LET req == HonestReq(2, NodeP1, now, Meas1, ChipA, "Milan")
           o == register_node(NodeP1, req)
       IN  /\ req \in RegisterCalls(NodeP1, 2)
           /\ o.result.ok
           /\ o.nodes[1].lifecycle_status = "Inactive"
           /\ FullyScrubbed(o.nodes[1])
           /\ o.index[NodeP1] = 2

\* C33: a heartbeat attempt whose 65 seconds have passed without a successful
\* response leaves the guest as DrainAndShutdown does: the draining flag is
\* set, so that the gatekeeper refuses connections, the shutdown flag is set
\* and the heartbeat task stops, from where main waits for the streams,
\* unregisters and exits.
C33_BudgetExhaustedDrains ==
    guest.heartbeat_task = "attempt" =>
        \A outcome \in HeartbeatOutcomes :
            LET timed == heartbeat_attempt(guest, TRUE, outcome)
                drained == heartbeat_attempt([guest EXCEPT !.shutdown = FALSE], FALSE,
                                             Ok(<<"DrainAndShutdown">>))
            IN  /\ timed.shutdown /\ timed.heartbeat_task = "stopped"
                /\ timed.shutdown = drained.shutdown
                /\ timed.is_draining
                /\ rejects_connection(timed.is_draining)

\* the URL the fetch asks next, None when it has ended
NextKdsUrl(k) ==
    IF k.pc = "done" THEN None ELSE Some(kds_url(unwrap(k.report), k.candidate))

\* C34: the fetch reacts per URL: a 200 ends it with the body of the
\* response, a 404 moves it on to the next candidate, and a 5xx or a network
\* error is retried on the same URL after a back-off; once the budget is
\* spent the fetch stops with an error.
C34_PerUrlReaction ==
    kds.pc = "round" /\ (\E i \in 1..ChipIdLen : unwrap(kds.report).chip_id[i] # 0) =>
        \A response \in KdsResponses, duration \in KdsRequestDurations :
            LET after == kds_request(kds, response, duration)
                report == unwrap(kds.report)
                last == kds.candidate = Len(kds_candidates(report))
            IN  /\ (response.sent /\ response.status = 200 /\ response.body.parses) =>
                      after.pc = "done" /\ after.result = Some(Ok(response.body))
                /\ (response.sent /\ response.status = 404 /\ ~last) =>
                      /\ after.pc = "round"
                      /\ NextKdsUrl(after) = Some(kds_url(report, kds.candidate + 1))
                /\ (~response.sent \/ response.status = 503) =>
                      IF after.elapsed >= KDS_TIMEOUT /\ last
                      THEN after.pc = "done" /\ ~unwrap(after.result).ok
                      ELSE /\ after.pc = "backoff"
                           /\ NextKdsUrl(after) = NextKdsUrl(kds)

\* every file of the asset directory is there and completely written
AllWritten(dir) ==
    /\ is_some(dir)
    /\ \A i \in 1..Len(AssetFiles) :
          AssetFiles[i] \in DOMAIN unwrap(dir) /\ unwrap(dir)[AssetFiles[i]] = "complete"

\* launch l is inside extract_assets
Extracting(l) == assets.launches[l].pc = "extract"

\* ensure_assets has returned the paths to launch l
HasPaths(l) ==
    /\ assets.launches[l].pc = "returned"
    /\ unwrap(assets.launches[l].result).ok

\* C35: the lock serialises extraction under concurrent launches: a launch
\* that got the asset paths from ensure_assets finds all three files
\* completely written and no other launch still writing the directory, at most
\* one launch extracts at a time, and when no launch is extracting the
\* directory is either absent or complete.
C35_ExtractionSerialised ==
    /\ \A l \in 1..MaxLaunches :
          HasPaths(l) =>
             /\ AllWritten(assets.dir)
             /\ \A m \in 1..MaxLaunches : ~Extracting(m)
    /\ \A l, m \in 1..MaxLaunches : (Extracting(l) /\ Extracting(m)) => l = m
    /\ (\A l \in 1..MaxLaunches : ~Extracting(l)) =>
          (assets.dir = None \/ AllWritten(assets.dir))

\* the three keys of a cache entry with a hostname
ThreeKeys(meta) ==
    {to_string(meta.node_id), unwrap(meta.hostname), extract_subdomain(unwrap(meta.hostname))}

\* the nodes of a cache whose hostname is resolved
Resolved(c) == {id \in DOMAIN c : is_some(c[id].hostname)}

\* every key of the table is the decimal id of a node with a unit file, or the
\* hostname or first label of one whose hostname is resolved
NoStaleKey(dir, c, t) ==
    \A key \in DOMAIN t :
        \E id \in DOMAIN unwrap(dir) :
            /\ id \in DOMAIN c
            /\ \/ key = to_string(id)
               \/ id \in Resolved(c) /\ key \in ThreeKeys(c[id])

\* the last position of `order` whose node has `key` among its three keys
LastHolder(c, order, key) ==
    order[CHOOSE i \in 1..Len(order) :
             /\ order[i] \in Resolved(c) /\ key \in ThreeKeys(c[order[i]])
             /\ \A j \in (i + 1)..Len(order) :
                    ~(order[j] \in Resolved(c) /\ key \in ThreeKeys(c[order[j]]))]

\* C36, as stated: after a refresh the table has, for every node with a unit
\* file and a resolved hostname, the hostname, its first label and the decimal
\* node id, all three mapped to the port of that node's unit file, and has no
\* key of a node without a unit file.
C36_ThreeKeysPerNode ==
    \A reachable \in [UnitIds -> BOOLEAN], order \in Orders(ScannedIds) :
        LET o == sync_state(units, cache, table, reachable, order)
        IN  /\ \A id \in Resolved(o.cache) :
                  \A key \in ThreeKeys(o.cache[id]) :
                      key \in DOMAIN o.table /\ o.table[key] = RecordedPort(units, id)
            /\ units # None => NoStaleKey(units, o.cache, o.table)

\* C36, amended: after a refresh the table has the three keys of every node
\* with a unit file and a resolved hostname and no key of a node without a
\* unit file; a key maps to the port of the unit file of the node it belongs
\* to, and a key that belongs to several nodes (two nodes of one hostname)
\* maps to the port of the one the rebuild visits last.
C36_ThreeKeysLastWins ==
    \A reachable \in [UnitIds -> BOOLEAN], order \in Orders(ScannedIds) :
        LET o == sync_state(units, cache, table, reachable, order)
        IN  /\ \A id \in Resolved(o.cache) :
                  /\ id \in ScannedIds
                  /\ o.cache[id].port = RecordedPort(units, id)
                  /\ \A key \in ThreeKeys(o.cache[id]) :
                        /\ key \in DOMAIN o.table
                        /\ o.table[key] = RecordedPort(units, LastHolder(o.cache, order, key))
                        /\ (\A m \in Resolved(o.cache) \ {id} : key \notin ThreeKeys(o.cache[m]))
                              => o.table[key] = RecordedPort(units, id)
            /\ units # None => NoStaleKey(units, o.cache, o.table)

\* Nodes 1 and 2 have one hostname in the registry and unit files with
\* different ports; the watcher has refreshed: each decimal id leads to its
\* node's port, the hostname and its first label lead to the port of node 2.
C36_Witness ==
    /\ units # None /\ DOMAIN unwrap(units) = {1, 2}
    /\ RecordedPort(units, 1) # RecordedPort(units, 2)
    /\ Resolved(cache) = {1, 2}
    /\ cache[1].hostname = cache[2].hostname
    /\ \E order \in Orders(ScannedIds) :
          table = sync_state(units, cache, table, [id \in UnitIds |-> TRUE], order).table
    /\ table[to_string(1)] = RecordedPort(units, 1)
    /\ table[to_string(2)] = RecordedPort(units, 2)
    /\ table[unwrap(cache[1].hostname)] = RecordedPort(units, 2)
    /\ table[extract_subdomain(unwrap(cache[1].hostname))] = RecordedPort(units, 2)

\* gpt_node, detect_generation: the generation the guest's local check detects
detect_generation(tcb) ==
    IF is_some(tcb.fmc) THEN "Turin"
    ELSE IF tcb.bootloader >= 8 THEN "Genoa"
    ELSE "Milan"

\* reported TCBs of the three generations, at and below their default minimums
TcbInputs ==
    {MilanTcb, Tcb(3, 0, 28, 222, None),
     Tcb(10, 0, 24, 84, None), Tcb(9, 0, 28, 222, None),
     TurinTcb, Tcb(1, 0, 1, 1, Some(5))}

\* the request of a guest on a machine that reports `tcb`
TcbReq(node_id, principal, tcb) ==
    LET gen == detect_generation(tcb)
    IN  [HonestReq(node_id, principal, now, Meas1, ChipA, gen) EXCEPT
            !.attestation_report =
                Der(Sign([HonestBody(principal, now, Meas1, ChipA, gen) EXCEPT
                             !.reported_tcb = tcb],
                         Vek(gen).key))]

\* the errors of perform_attestation_checks about the TCB and the guest SVN
TcbMessages ==
    {"Guest SVN < min", "TCB Microcode < min", "TCB SNP < min", "TCB TEE < min",
     "TCB Bootloader < min", "TCB FMC < min"}

\* C37: register_node holds a report to the minimums of the generation the
\* guest's local check detects for it (Milan, Genoa or Turin): a report the
\* checks against that generation's policy reject is not registered, and no
\* report is rejected for a TCB error those checks do not find.
C37_OwnGenerationMinimums ==
    \A p \in NodeCallers \ {Anonymous}, n \in DOMAIN nodes, tcb \in TcbInputs :
        LET req == TcbReq(n, p, tcb)
            r == register_node(p, req).result
            own == perform_attestation_checks(req.attestation_report.value, requirements,
                                              detect_generation(tcb))
        IN  /\ r.ok => own = << >>
            /\ ~r.ok => \A i \in DOMAIN r.msg :
                            r.msg[i] \in TcbMessages => \E j \in DOMAIN own : own[j] = r.msg[i]

\* C38, as stated: a register_node call that returns an error leaves every
\* node record and the principal index as they were before the call.
C38_ErrorChangesNothing ==
    \A p \in NodeCallers, n \in TargetIds :
        \A req \in RegisterCalls(p, n) :
            LET o == register_node(p, req)
            IN  ~o.result.ok => o.nodes = nodes /\ o.index = index

\* the fields of a node record that create_node sets and no session changes
SameConfiguration(a, b) ==
    /\ a.node_id = b.node_id
    /\ a.owner = b.owner
    /\ a.hostname = b.hostname
    /\ a.model_id = b.model_id
    /\ a.encrypted_api_key = b.encrypted_api_key
    /\ a.expected_chip_id = b.expected_chip_id

\* C38, amended: a register_node call that returns an error changes nothing
\* but the session step 2 evicts. When the caller is indexed to a node other
\* than the one of the request, that node is Inactive and scrubbed after the
\* call and the caller is no longer in the index; every other node record and
\* index entry is as before. In every other case nothing changes.
C38_ErrorKeepsAllButOldSession ==
    \A p \in NodeCallers, n \in TargetIds :
        \A req \in RegisterCalls(p, n) :
            LET o == register_node(p, req)
            IN  ~o.result.ok =>
                    IF p \in DOMAIN index /\ index[p] # n
                    THEN /\ o.index = MapRemove(index, p)
                         /\ DOMAIN o.nodes = DOMAIN nodes
                         /\ o.nodes[index[p]].lifecycle_status = "Inactive"
                         /\ FullyScrubbed(o.nodes[index[p]])
                         /\ SameConfiguration(o.nodes[index[p]], nodes[index[p]])
                         /\ \A m \in DOMAIN nodes \ {index[p]} : o.nodes[m] = nodes[m]
                    ELSE o.nodes = nodes /\ o.index = index

\* NodeP1 holds an Active session on node 1; its calls with a root certificate
\* that does not parse are rejected: the one for node 2 leaves node 1 Inactive
\* and NodeP1 out of the index, the one for node 1 leaves the registry as it was.
C38_Witness ==
    /\ HoldsSession(NodeP1) /\ index[NodeP1] = 1
    /\ nodes[1].lifecycle_status = "Active"
    /\ 2 \in DOMAIN nodes
    /\ LET bad(n) == [HonestReq(n, NodeP1, now, Meas1, ChipA, "Milan") EXCEPT !.ark_der = BadDer]
           other == register_node(NodeP1, bad(2))
           same == register_node(NodeP1, bad(1))
       IN  /\ bad(2) \in RegisterCalls(NodeP1, 2)
           /\ bad(1) \in RegisterCalls(NodeP1, 1)
           /\ ~other.result.ok
           /\ other.nodes[1].lifecycle_status = "Inactive"
           /\ NodeP1 \notin DOMAIN other.index
           /\ other.nodes[2] = nodes[2]
           /\ ~same.result.ok
           /\ same.nodes = nodes /\ same.index = index

\* C39: the node of a guest that starts a heartbeat cycle every 540 s and gets
\* each cycle answered before its 65 s have elapsed is never made Inactive by
\* the liveness timer.
C39_HealthyGuestStaysRegistered ==
    pulse.pc \in {"sleep", "attempt"} =>
        /\ nodes[PulseNode].lifecycle_status # "Inactive"
        /\ now = pulse.next_tick =>
               check_node_liveness_tick.nodes[PulseNode].lifecycle_status # "Inactive"

\* C40: every node whose lifecycle is Active or Draining has its principal,
\* its reported measurement and its heartbeat stamp set; so the heartbeat of a
\* session holder finds measurement data to decide on, and the liveness timer
\* finds a recorded heartbeat on every node it looks at.
C40_SessionFieldsSet ==
    /\ \A n \in DOMAIN nodes :
          nodes[n].lifecycle_status \in {"Active", "Draining"} =>
              /\ is_some(nodes[n].node_principal)
              /\ is_some(nodes[n].reported_measurement)
              /\ is_some(nodes[n].last_heartbeat_timestamp)
    /\ \A n \in DOMAIN nodes :
          nodes[n].lifecycle_status # "Inactive" =>
              /\ nodes[n].lifecycle_status \in {"Active", "Draining"}
              /\ timed_out(nodes[n], now) =>
                     saturating_sub(now, unwrap(nodes[n].last_heartbeat_timestamp))
                         > LIVENESS_TIMEOUT
    /\ \A p \in NodeCallers :
          HoldsSession(p) =>
              /\ nodes[index[p]].lifecycle_status \in {"Active", "Draining"}
              /\ heartbeat(p).result = Ok(<<"Abort">>) =>
                     ReportedStatuses(index[p]) \subseteq {"Revoked"}

\* node 1 is Active and node 2 is Draining, each with its principal, its
\* measurement and a heartbeat stamp; the stamp of node 1 is older than the
\* timeout, so the timer is about to deactivate it for its age
C40_Witness ==
    /\ DOMAIN nodes = {1, 2}
    /\ nodes[1].lifecycle_status = "Active"
    /\ nodes[2].lifecycle_status = "Draining"
    /\ \A n \in {1, 2} :
          /\ is_some(nodes[n].node_principal)
          /\ is_some(nodes[n].reported_measurement)
          /\ is_some(nodes[n].last_heartbeat_timestamp)
    /\ timed_out(nodes[1], now)

====
